---- MODULE Spec2Model ----
(***************************************************************************)
(* svclink: mirrors the ready endpoints of services of remote clusters     *)
(* into EndpointSlices of the local cluster.                               *)
(*                                                                         *)
(*   SpecAgg  the Endpoint Aggregator's getEndpointsFromCluster applied to *)
(*            bounded EndpointSlice listings of one remote cluster.        *)
(*   SpecFilter the filters of a ClusterLinkSpec and discoverInCluster     *)
(*            applied to bounded filter lists.                             *)
(*   SpecReg  the sync cycle with kubeconfigs that fail to decode or parse.*)
(*   SpecLife the sync cycle with a ClusterLink deleted or a cluster cut   *)
(*            off.                                                         *)
(*   SpecDisc the sync cycle with remote clusters that refuse the Services *)
(*            List of a namespace.                                         *)
(*   SpecOwner the sync cycle with local Services deleted and created.     *)
(*   SpecLoop the sync cycle driven by syncLoop: the timer of the interval *)
(*            and the cancellation of the context.                         *)
(*   SpecUnion the discovery under filter lists that are edited.           *)
(*   SpecScope the reconcile of services of one name in two namespaces.    *)
(*   SpecEdit the reconcile of slices the user has labelled, for a Service *)
(*            that was replaced.                                           *)
(*   SpecOrphan the cleanup of a service that lost all its endpoints.      *)
(*   SpecConv cycles in which no call fails, the world changing between    *)
(*            them.                                                        *)
(*   SpecName the names updateSliceForCluster gives to two pairs of a      *)
(*            service and a cluster.                                       *)
(*   Spec     the sync cycle of the controller (ListClusterInfo,           *)
(*            DiscoverServices, filtering, per service AggregateEndpoints  *)
(*            and UpdateEndpointSlices) against a local store and remote   *)
(*            clusters that change between the steps.                      *)
(*                                                                         *)
(* Names are sequences of tokens joined by "-": the service "web" is       *)
(* <<"web">>, and fmt.Sprintf("%s-svclink-%s", s, c) is s \o <<"svclink">> *)
(* \o c.  The address 10.0.k.j is the pair <<k, j>>.  A *bool is one of    *)
(* "true", "false", "nil".                                                 *)
(***************************************************************************)
EXTENDS Integers, Sequences, FiniteSets, TLC

\* ------------------------------------------------------------------ bounds
MaxSlices == 2
MaxEps == 2
MaxEnv == 2
MaxFaults == 1
MaxPolicy == 3
MaxCycles == 2
MaxTokens == 6

\* ------------------------------------------------- pkg/config constants
ClusterLabel == "cloudpilot.ai/svclink-cluster"
ServiceNameLabel == "kubernetes.io/service-name"
ManagedByLabel == "endpointslice.kubernetes.io/managed-by"
ManagedByValue == "svclink.cloudpilot.ai"

\* config.DefaultSyncInterval, counted in ticks of 15 seconds
SyncInterval == 2

\* the value kube-controller-manager puts on the slices it owns
NativeManagedBy == "endpointslice-controller.k8s.io"

\* ------------------------------------------------------------ the world
East == <<"east">>
West == <<"west">>
Clusters == {East, West}

Web == <<"web">>
Api == <<"api">>
Default == "default"
KubeSystem == "kube-system"

\* a service key "namespace/name" is the pair <<namespace, name>>
WebKey == <<Default, Web>>
ApiKey == <<Default, Api>>
DnsKey == <<KubeSystem, <<"kube", "dns">>>>
ServiceKeys == {WebKey, ApiKey, DnsKey}

VARIABLES
    clusterLinks,   \* local store: ClusterLink name -> [spec, status]
    localServices,  \* local store: service key -> UID, 0 when absent
    localSlices,    \* local store: <<namespace, name>> -> EndpointSlice
    remote,         \* cluster -> [up, version, namespaces, services, slices, forbidden]
    cfg,            \* config.Config of the running controller
    pc,             \* where Controller.sync stands
    clusterInfos,   \* sync: the map ListClusterInfo returned
    services,       \* sync: the map DiscoverServices returned (then filtered)
    todo,           \* sync: keys of services the range loop has not visited
    last,           \* what the last step did (calls made, results)
    envSteps,       \* changes made so far by users and remote clusters
    faults,         \* API calls of the local store that have failed so far
    listing,        \* SpecAgg: the EndpointSliceList a remote cluster returns
    getOut,         \* SpecAgg: what getEndpointsFromCluster returned for it
    policy,         \* SpecFilter: a ClusterLinkSpec and the global namespace list
    verdict,        \* SpecFilter: what the filters and the discovery made of it
    loop,           \* SpecLoop: where syncLoop stands, its timer, the context
    naming          \* SpecName: two (service, cluster) pairs and their slice names

sysVars == <<clusterLinks, localServices, localSlices, remote, cfg, pc,
             clusterInfos, services, todo, last, envSteps, faults>>
aggVars == <<listing, getOut>>
fltVars == <<policy, verdict>>
loopVars == <<loop>>
nameVars == <<naming>>
vars == <<sysVars, aggVars, fltVars, loopVars, nameVars>>

NoResult == [kind |-> "none"]
\* syncLoop not started: pc is the place in wait.UntilWithContext, timer the
\* time since the timer was set, took the time the running cycle has taken,
\* prevTook that of the cycle before, cycles and returned the calls of sync
\* made and returned, cancelled whether ctx is done
NoLoop == [pc |-> "off", timer |-> 0, took |-> 0, prevTook |-> 0, cycles |-> 0, returned |-> 0,
           cancelled |-> FALSE]
\* no name chosen, no slice named
NoNaming == [service1 |-> <<>>, cluster1 |-> <<>>, service2 |-> <<>>, cluster2 |-> <<>>,
             names |-> <<>>]
ReadyValues == {"true", "false", "nil"}

\* ------------------------------------------------------- Endpoint Aggregator

\* (mutation) the skip test looks for the managed-by marker instead
isSyncedSlice_byMarker(slice) ==
    /\ ManagedByLabel \in DOMAIN slice.labels
    /\ slice.labels[ManagedByLabel] = ManagedByValue

\* slice.Labels[config.ClusterLabel] is present, whatever its value
isSyncedSlice(slice) == ClusterLabel \in DOMAIN slice.labels

\* (mutation) an unset readiness counts as ready
isReady_nilReady(ep) == ep.ready # "false"

\* ep.Conditions.Ready != nil && *ep.Conditions.Ready
isReady(ep) == ep.ready = "true"

\* len(ports) == 0 && len(slice.Ports) > 0
takesPorts(ports, slice) == Len(ports) = 0 /\ Len(slice.ports) > 0

\* (mutation) the ports are taken before the synced slice is skipped
RECURSIVE collectNative_portsFirst(_, _, _, _)
collectNative_portsFirst(items, i, allEndpoints, ports) ==
    IF i > Len(items) THEN [endpoints |-> allEndpoints, ports |-> ports]
    ELSE LET p == IF takesPorts(ports, items[i]) THEN items[i].ports ELSE ports
         IN  IF isSyncedSlice(items[i]) THEN collectNative_portsFirst(items, i + 1, allEndpoints, p)
             ELSE collectNative_portsFirst(items, i + 1, allEndpoints \o items[i].endpoints, p)

\* (mutation) every native slice with ports overwrites the ports: the last wins
RECURSIVE collectNative_lastPorts(_, _, _, _)
collectNative_lastPorts(items, i, allEndpoints, ports) ==
    IF i > Len(items) THEN [endpoints |-> allEndpoints, ports |-> ports]
    ELSE IF isSyncedSlice(items[i]) THEN collectNative_lastPorts(items, i + 1, allEndpoints, ports)
    ELSE collectNative_lastPorts(items, i + 1, allEndpoints \o items[i].endpoints,
                                 IF Len(items[i].ports) > 0 THEN items[i].ports ELSE ports)

\* the loop over sliceList.Items: native slices add their endpoints, the
\* first non-empty port list is kept
RECURSIVE collectNative(_, _, _, _)
collectNative(items, i, allEndpoints, ports) ==
    IF i > Len(items) THEN [endpoints |-> allEndpoints, ports |-> ports]
    ELSE IF isSyncedSlice(items[i]) THEN collectNative(items, i + 1, allEndpoints, ports)
    ELSE collectNative(items, i + 1, allEndpoints \o items[i].endpoints,
                       IF takesPorts(ports, items[i]) THEN items[i].ports ELSE ports)

\* the loop over allEndpoints keeping the ready ones
RECURSIVE filterReady(_, _, _)
filterReady(allEndpoints, i, readyEndpoints) ==
    IF i > Len(allEndpoints) THEN readyEndpoints
    ELSE filterReady(allEndpoints, i + 1,
                     IF isReady(allEndpoints[i]) THEN Append(readyEndpoints, allEndpoints[i])
                     ELSE readyEndpoints)

\* getEndpointsFromCluster on a successful List: (readyEndpoints, ports, nil)
getEndpointsFromCluster(items) ==
    LET all == collectNative(items, 1, <<>>, <<>>)
    IN  [endpoints |-> filterReady(all.endpoints, 1, <<>>), ports |-> all.ports]

\* ------------------------------------------------------------------ helpers
Range(f) == { f[x] : x \in DOMAIN f }
\* the orders in which a Go map range, or a cached List, can yield the set S
Orders(S) == { o \in [1..Cardinality(S) -> S] : \A i, j \in 1..Cardinality(S) : o[i] = o[j] => i = j }
\* the subsets of S with at most n elements
RECURSIVE SubsetsUpTo(_, _)
SubsetsUpTo(S, n) ==
    IF n <= 0 THEN {{}}
    ELSE LET smaller == SubsetsUpTo(S, n - 1)
         IN  smaller \cup { T \cup {x} : T \in smaller, x \in S }

\* f without the key k / f with k bound to v
Without(f, k) == [x \in (DOMAIN f) \ {k} |-> f[x]]
With(f, k, v) == [x \in (DOMAIN f) \cup {k} |-> IF x = k THEN v ELSE f[x]]

\* ------------------------------------------------------ ClusterLinkSpec filters
Kubernetes == <<"kubernetes">>

\* (mutation) kube-system is not inserted
ToExcludedNamespaceSet_userOnly(spec) == Range(spec.excludedNamespaces)

ToExcludedNamespaceSet(spec) == Range(spec.excludedNamespaces) \cup {KubeSystem}
ToIncludedNamespaceSet(spec) == Range(spec.includedNamespaces)
ToExcludedServiceSet(spec) == Range(spec.excludedServices)
ToExcludedServiceNameSet(spec) == Range(spec.excludedServiceNames) \cup {Kubernetes}

\* (mutation) a namespace of the inclusion list is kept even when excluded
ShouldExcludeNamespace_inclusionWins(namespace, excludedNS, includedNS) ==
    IF includedNS # {} THEN namespace \notin includedNS
    ELSE namespace \in excludedNS

ShouldExcludeNamespace(namespace, excludedNS, includedNS) ==
    IF namespace \in excludedNS THEN TRUE
    ELSE IF includedNS # {} /\ namespace \notin includedNS THEN TRUE
    ELSE FALSE

\* (mutation) a namespace/name entry excludes the name in every namespace
ShouldExcludeService_anyNamespace(namespace, serviceName, excludedSvcSet, excludedSvcNameSet) ==
    \/ \E k \in excludedSvcSet : k[2] = serviceName
    \/ serviceName \in excludedSvcNameSet

\* fullName := namespace + "/" + serviceName
ShouldExcludeService(namespace, serviceName, excludedSvcSet, excludedSvcNameSet) ==
    IF <<namespace, serviceName>> \in excludedSvcSet THEN TRUE
    ELSE IF serviceName \in excludedSvcNameSet THEN TRUE
    ELSE FALSE

\* ------------------------------------------------------------ Cluster Registry
ReadyCondition(connected) ==
    IF connected
    THEN [type |-> "Ready", status |-> "True", reason |-> "Connected",
          message |-> "Successfully connected to remote cluster"]
    ELSE [type |-> "Ready", status |-> "False", reason |-> "ConnectionFailed",
          message |-> "Failed to connect to remote cluster"]

\* (mutation) a non-empty error message gets an Error condition in any case
buildConditions_errorAlways(connected, errorMsg) ==
    <<ReadyCondition(connected)>> \o
        (IF errorMsg # ""
         THEN <<[type |-> "Error", status |-> "True", reason |-> "Error", message |-> errorMsg]>>
         ELSE <<>>)

buildConditions(connected, errorMsg) ==
    IF connected THEN <<ReadyCondition(TRUE)>>
    ELSE IF errorMsg # ""
         THEN <<ReadyCondition(FALSE),
                [type |-> "Error", status |-> "True", reason |-> "Error", message |-> errorMsg]>>
         ELSE <<ReadyCondition(FALSE)>>

\* (mutation) a failed connection clears lastConnected
updateClusterStatus_clearsLastConnected(status, connected, version, errorMsg) ==
    [ connected |-> connected,
      version |-> version,
      error |-> errorMsg,
      lastConnected |-> IF connected THEN "set" ELSE "nil",
      conditions |-> buildConditions(connected, errorMsg) ]

\* the Status that updateClusterStatus leaves in the object it was given;
\* lastConnected is "nil" or "set" (the time itself is not kept)
updateClusterStatus(status, connected, version, errorMsg) ==
    [ connected |-> connected,
      version |-> version,
      error |-> errorMsg,
      lastConnected |-> IF connected THEN "set" ELSE status.lastConnected,
      conditions |-> buildConditions(connected, errorMsg) ]

\* base64.StdEncoding.DecodeString(clusterLink.Spec.Kubeconfig) fails
decodeFails(link) == link.spec.kubeconfig = "badBase64"
\* buildClientWithVersion fails: only the parsing of the kubeconfig can
buildClientFails(link) == link.spec.kubeconfig = "badConfig"
\* the version buildClientWithVersion returns: "" when ServerVersion fails
probedVersion(c) == IF remote[c].up THEN remote[c].version ELSE ""

\* (mutation) every descriptor is put in the map
connects_always(link) == TRUE

\* the descriptors ListClusterInfo puts in its map
connects(link) == ~decodeFails(link) /\ ~buildClientFails(link)

\* how ListClusterInfo leaves the descriptor c of the list
listedStatus(c) ==
    LET link == clusterLinks[c]
    IN  IF decodeFails(link)
        THEN updateClusterStatus(link.status, FALSE, "", "Failed to decode kubeconfig")
        ELSE IF buildClientFails(link)
        THEN updateClusterStatus(link.status, FALSE, "", "Failed to build client")
        ELSE updateClusterStatus(link.status, TRUE, probedVersion(c), "")

\* ListClusterInfo: the returned map
ListClusterInfo ==
    [ c \in { d \in DOMAIN clusterLinks : connects(clusterLinks[d]) } |->
        [ Name |-> c,
          Enabled |-> clusterLinks[c].spec.enabled,
          Client |-> c,
          ClusterLink |-> [clusterLinks[c] EXCEPT !.status = listedStatus(c)] ] ]

\* ---------------------------------------------------------- Service Discoverer

\* the loop over svcList.Items of one namespace
RECURSIVE discoverServicesOf(_, _, _, _, _, _)
discoverServicesOf(clusterName, spec, namespace, svcList, si, svcs) ==
    IF si > Len(svcList) THEN svcs
    ELSE LET serviceName == svcList[si]
             key == <<namespace, serviceName>>
         IN  IF ShouldExcludeService(namespace, serviceName,
                                     ToExcludedServiceSet(spec), ToExcludedServiceNameSet(spec))
             THEN discoverServicesOf(clusterName, spec, namespace, svcList, si + 1, svcs)
             ELSE LET svcInfo == IF key \in DOMAIN svcs THEN svcs[key]
                                 ELSE [Name |-> serviceName, Namespace |-> namespace,
                                       Clusters |-> <<>>, Service |-> clusterName]
                  IN  discoverServicesOf(clusterName, spec, namespace, svcList, si + 1,
                          With(svcs, key, [svcInfo EXCEPT !.Clusters = Append(@, clusterName),
                                                          !.Service = clusterName]))

\* the services of one namespace of a remote cluster, as its List returns them
remoteServiceList(c, namespace) ==
    LET sel == SelectSeq(remote[c].services, LAMBDA k : k[1] = namespace)
    IN  [i \in 1..Len(sel) |-> sel[i][2]]

\* Services(namespace).List of the remote cluster c fails
servicesListFails(c, namespace) == namespace \in remote[c].forbidden

\* (mutation) the global namespace list is not consulted
RECURSIVE discoverNamespaces_noGlobal(_, _, _, _, _, _)
discoverNamespaces_noGlobal(clusterName, spec, nsList, ni, svcs, cfgIncludedNamespaces) ==
    IF ni > Len(nsList) THEN [err |-> FALSE, services |-> svcs]
    ELSE IF ShouldExcludeNamespace(nsList[ni], ToExcludedNamespaceSet(spec), ToIncludedNamespaceSet(spec))
    THEN discoverNamespaces_noGlobal(clusterName, spec, nsList, ni + 1, svcs, cfgIncludedNamespaces)
    ELSE IF servicesListFails(clusterName, nsList[ni])
    THEN [err |-> TRUE, services |-> svcs]
    ELSE discoverNamespaces_noGlobal(clusterName, spec, nsList, ni + 1,
             discoverServicesOf(clusterName, spec, nsList[ni],
                                remoteServiceList(clusterName, nsList[ni]), 1, svcs),
             cfgIncludedNamespaces)

\* (mutation) a failed Services List drops what the cluster had added
RECURSIVE discoverNamespaces_rollback(_, _, _, _, _, _)
discoverNamespaces_rollback(clusterName, spec, nsList, ni, svcs, cfgIncludedNamespaces) ==
    IF ni > Len(nsList) THEN [err |-> FALSE, services |-> svcs]
    ELSE LET namespace == nsList[ni]
         IN  IF cfgIncludedNamespaces # {} /\ namespace \notin cfgIncludedNamespaces
             THEN discoverNamespaces_rollback(clusterName, spec, nsList, ni + 1, svcs, cfgIncludedNamespaces)
             ELSE IF ShouldExcludeNamespace(namespace, ToExcludedNamespaceSet(spec),
                                            ToIncludedNamespaceSet(spec))
             THEN discoverNamespaces_rollback(clusterName, spec, nsList, ni + 1, svcs, cfgIncludedNamespaces)
             ELSE IF servicesListFails(clusterName, namespace)
             THEN [err |-> TRUE,
                   services |-> [k \in { x \in DOMAIN svcs : svcs[x].Clusters # <<clusterName>> } |->
                                   [svcs[k] EXCEPT !.Clusters = SelectSeq(@, LAMBDA c : c # clusterName)]]]
             ELSE discoverNamespaces_rollback(clusterName, spec, nsList, ni + 1,
                      discoverServicesOf(clusterName, spec, namespace,
                                         remoteServiceList(clusterName, namespace), 1, svcs),
                      cfgIncludedNamespaces)

\* the loop over nsList.Items: the error it returns with (a Services List
\* failed) and the services map as it is then
RECURSIVE discoverNamespaces(_, _, _, _, _, _)
discoverNamespaces(clusterName, spec, nsList, ni, svcs, cfgIncludedNamespaces) ==
    IF ni > Len(nsList) THEN [err |-> FALSE, services |-> svcs]
    ELSE LET namespace == nsList[ni]
         IN  IF cfgIncludedNamespaces # {} /\ namespace \notin cfgIncludedNamespaces
             THEN discoverNamespaces(clusterName, spec, nsList, ni + 1, svcs, cfgIncludedNamespaces)
             ELSE IF ShouldExcludeNamespace(namespace, ToExcludedNamespaceSet(spec),
                                            ToIncludedNamespaceSet(spec))
             THEN discoverNamespaces(clusterName, spec, nsList, ni + 1, svcs, cfgIncludedNamespaces)
             ELSE IF servicesListFails(clusterName, namespace)
             THEN [err |-> TRUE, services |-> svcs]
             ELSE discoverNamespaces(clusterName, spec, nsList, ni + 1,
                      discoverServicesOf(clusterName, spec, namespace,
                                         remoteServiceList(clusterName, namespace), 1, svcs),
                      cfgIncludedNamespaces)

\* the namespaces of nsList for which discoverInCluster lists the services
listedNamespaces(spec, nsList, cfgIncludedNamespaces) ==
    SelectSeq(nsList,
              LAMBDA namespace :
                  /\ ~(cfgIncludedNamespaces # {} /\ namespace \notin cfgIncludedNamespaces)
                  /\ ~ShouldExcludeNamespace(namespace, ToExcludedNamespaceSet(spec),
                                             ToIncludedNamespaceSet(spec)))

\* discoverInCluster: the error (a List of the remote cluster failed) and the
\* services map as the call leaves it
discoverInCluster(clusterName, clusterInfo, svcs, cfgIncludedNamespaces) ==
    IF ~remote[clusterInfo.Client].up THEN [err |-> TRUE, services |-> svcs]
    ELSE discoverNamespaces(clusterName, clusterInfo.ClusterLink.spec,
                            remote[clusterInfo.Client].namespaces, 1, svcs,
                            cfgIncludedNamespaces)

\* (mutation) the error of the discovery is not recorded
UpdateClusterSyncError_silent(clusterInfo, syncError) ==
    updateClusterStatus(clusterInfo.ClusterLink.status, TRUE,
                        clusterInfo.ClusterLink.status.version, "")

\* UpdateClusterSyncError: the Status it leaves in clusterInfo.ClusterLink
UpdateClusterSyncError(clusterInfo, syncError) ==
    updateClusterStatus(clusterInfo.ClusterLink.status, TRUE,
                        clusterInfo.ClusterLink.status.version,
                        IF syncError THEN "Service sync error" ELSE "")

\* (mutation) every cluster starts from an empty map: the last one wins
RECURSIVE DiscoverServices_lastWins(_, _, _, _, _)
DiscoverServices_lastWins(order, i, infos, includedNamespaces, acc) ==
    IF i > Len(order) THEN acc
    ELSE LET clusterName == order[i]
             r == discoverInCluster(clusterName, infos[clusterName], <<>>, includedNamespaces)
         IN  DiscoverServices_lastWins(order, i + 1, infos, includedNamespaces,
                 [services |-> r.services,
                  status |-> With(acc.status, clusterName,
                                  UpdateClusterSyncError(infos[clusterName], r.err)),
                  errs |-> IF r.err THEN acc.errs \cup {clusterName} ELSE acc.errs])

\* DiscoverServices, the clusters of the map visited in the given order: the
\* services map, the Status written for each cluster and the clusters whose
\* discoverInCluster returned an error
RECURSIVE DiscoverServices(_, _, _, _, _)
DiscoverServices(order, i, infos, includedNamespaces, acc) ==
    IF i > Len(order) THEN acc
    ELSE LET clusterName == order[i]
             r == discoverInCluster(clusterName, infos[clusterName], acc.services, includedNamespaces)
         IN  DiscoverServices(order, i + 1, infos, includedNamespaces,
                 [services |-> r.services,
                  status |-> With(acc.status, clusterName,
                                  UpdateClusterSyncError(infos[clusterName], r.err)),
                  errs |-> IF r.err THEN acc.errs \cup {clusterName} ELSE acc.errs])

\* ---------------------------------------------------- AggregateEndpoints

\* List of the EndpointSlices of a namespace with the label selector
\* kubernetes.io/service-name=serviceName, in the remote cluster c
remoteSliceList(c, namespace, serviceName) ==
    SelectSeq(remote[c].slices,
              LAMBDA sl : /\ sl.namespace = namespace
                          /\ ServiceNameLabel \in DOMAIN sl.labels
                          /\ sl.labels[ServiceNameLabel] = serviceName)

\* (mutation) a cluster without ready endpoints gets an entry as well
hasEndpoints_always(endpoints) == TRUE

\* len(endpoints) > 0
hasEndpoints(endpoints) == Len(endpoints) > 0

\* (mutation) a cluster whose List fails gets an entry without endpoints
RECURSIVE AggregateEndpoints_failedListed(_, _, _, _, _, _)
AggregateEndpoints_failedListed(namespace, serviceName, clusters, i, infos, results) ==
    IF i > Len(clusters) THEN results
    ELSE LET clusterName == clusters[i]
         IN  IF clusterName \notin DOMAIN infos
             THEN AggregateEndpoints_failedListed(namespace, serviceName, clusters, i + 1, infos, results)
             ELSE IF ~remote[infos[clusterName].Client].up
             THEN AggregateEndpoints_failedListed(namespace, serviceName, clusters, i + 1, infos,
                      Append(results, [ClusterName |-> infos[clusterName].Name,
                                       Endpoints |-> <<>>, Ports |-> <<>>]))
             ELSE LET r == getEndpointsFromCluster(
                               remoteSliceList(infos[clusterName].Client, namespace, serviceName))
                  IN  AggregateEndpoints_failedListed(namespace, serviceName, clusters, i + 1, infos,
                          IF hasEndpoints(r.endpoints)
                          THEN Append(results, [ClusterName |-> infos[clusterName].Name,
                                                Endpoints |-> r.endpoints, Ports |-> r.ports])
                          ELSE results)

\* the loop over clusters; a cluster missing from clusterInfos and a cluster
\* whose List fails are skipped
RECURSIVE AggregateEndpoints(_, _, _, _, _, _)
AggregateEndpoints(namespace, serviceName, clusters, i, infos, results) ==
    IF i > Len(clusters) THEN results
    ELSE LET clusterName == clusters[i]
         IN  IF clusterName \notin DOMAIN infos
             THEN AggregateEndpoints(namespace, serviceName, clusters, i + 1, infos, results)
             ELSE IF ~remote[infos[clusterName].Client].up
             THEN AggregateEndpoints(namespace, serviceName, clusters, i + 1, infos, results)
             ELSE LET r == getEndpointsFromCluster(
                               remoteSliceList(infos[clusterName].Client, namespace, serviceName))
                  IN  AggregateEndpoints(namespace, serviceName, clusters, i + 1, infos,
                          IF hasEndpoints(r.endpoints)
                          THEN Append(results, [ClusterName |-> infos[clusterName].Name,
                                                Endpoints |-> r.endpoints, Ports |-> r.ports])
                          ELSE results)

\* -------------------------------------------------------------- SliceUpdater

\* the API calls of the local store that can fail in one reconcile
FaultPoints ==
    ({"getService", "getSlice", "write", "delete"} \X Clusters) \cup {<<"list", <<>>>>}

\* (mutation) the cluster name comes first
sliceName_clusterFirst(serviceName, clusterName) == clusterName \o <<"svclink">> \o serviceName

\* fmt.Sprintf("%s-svclink-%s", serviceName, ce.ClusterName)
sliceName(serviceName, clusterName) == serviceName \o <<"svclink">> \o clusterName

svclinkLabels(serviceName, clusterName) ==
    (ServiceNameLabel :> serviceName) @@ (ClusterLabel :> clusterName)
        @@ (ManagedByLabel :> ManagedByValue)

\* (mutation) the created slice has no owner
newSlice_noOwner(namespace, serviceName, ce, uid) ==
    [ labels |-> svclinkLabels(serviceName, ce.ClusterName),
      ownerReferences |-> <<>>,
      addressType |-> "IPv4",
      endpoints |-> ce.Endpoints,
      ports |-> ce.Ports ]

\* the EndpointSlice updateSliceForCluster builds for a Create
newSlice(namespace, serviceName, ce, uid) ==
    [ labels |-> svclinkLabels(serviceName, ce.ClusterName),
      ownerReferences |-> <<[kind |-> "Service", name |-> serviceName, uid |-> uid]>>,
      addressType |-> "IPv4",
      endpoints |-> ce.Endpoints,
      ports |-> ce.Ports ]

\* (mutation) the update clears the owner references as well
updatedSlice_resetOwner(existing, serviceName, ce) ==
    [existing EXCEPT !.endpoints = ce.Endpoints,
                     !.ports = ce.Ports,
                     !.ownerReferences = <<>>,
                     !.labels = svclinkLabels(serviceName, ce.ClusterName) @@ existing.labels]

\* (mutation) the update replaces the label map by the three svclink labels
updatedSlice_onlyOwnLabels(existing, serviceName, ce) ==
    [existing EXCEPT !.endpoints = ce.Endpoints,
                     !.ports = ce.Ports,
                     !.labels = svclinkLabels(serviceName, ce.ClusterName)]

\* the fields updateSliceForCluster overwrites in an existing slice
updatedSlice(existing, serviceName, ce) ==
    [existing EXCEPT !.endpoints = ce.Endpoints,
                     !.ports = ce.Ports,
                     !.labels = svclinkLabels(serviceName, ce.ClusterName) @@ existing.labels]

\* updateSliceForCluster on the slices st.slices: Get the Service, Get the
\* slice, then Create or Update; f are the calls that fail
updateSliceForCluster(st, namespace, serviceName, ce, f) ==
    LET c == ce.ClusterName
        key == <<namespace, sliceName(serviceName, c)>>
        uid == localServices[<<namespace, serviceName>>]
    IN  IF <<"getService", c>> \in f
        THEN [st EXCEPT !.hits = @ \cup {<<"getService", c>>}, !.failed = @ \cup {c}]
        ELSE IF uid = 0
        THEN [st EXCEPT !.failed = @ \cup {c}]
        ELSE IF <<"getSlice", c>> \in f
        THEN [st EXCEPT !.hits = @ \cup {<<"getSlice", c>>}, !.failed = @ \cup {c}]
        ELSE LET verb == IF key \in DOMAIN st.slices THEN "update" ELSE "create"
                 body == IF key \in DOMAIN st.slices
                         THEN updatedSlice(st.slices[key], serviceName, ce)
                         ELSE newSlice(namespace, serviceName, ce, uid)
             IN  IF <<"write", c>> \in f
                 THEN [st EXCEPT !.hits = @ \cup {<<"write", c>>}, !.failed = @ \cup {c},
                                 !.calls = Append(@, [verb |-> verb, key |-> key, cluster |-> c, ok |-> FALSE])]
                 ELSE [st EXCEPT !.slices = With(@, key, body),
                                 !.calls = Append(@, [verb |-> verb, key |-> key, cluster |-> c, ok |-> TRUE])]

\* (mutation) the loop returns at the first cluster whose update fails
RECURSIVE updateSlices_stopOnError(_, _, _, _, _, _)
updateSlices_stopOnError(st, namespace, serviceName, clusterEndpoints, i, f) ==
    IF i > Len(clusterEndpoints) THEN st
    ELSE LET nxt == updateSliceForCluster(st, namespace, serviceName, clusterEndpoints[i], f)
         IN  IF nxt.failed # st.failed THEN nxt
             ELSE updateSlices_stopOnError(nxt, namespace, serviceName, clusterEndpoints, i + 1, f)

\* the loop of UpdateEndpointSlices over clusterEndpoints
RECURSIVE updateSlices(_, _, _, _, _, _)
updateSlices(st, namespace, serviceName, clusterEndpoints, i, f) ==
    IF i > Len(clusterEndpoints) THEN st
    ELSE updateSlices(updateSliceForCluster(st, namespace, serviceName, clusterEndpoints[i], f),
                      namespace, serviceName, clusterEndpoints, i + 1, f)

\* (mutation) the List of the cleanup is not restricted to the namespace
orphanCandidates_anyNamespace(slices, namespace, serviceName) ==
    { k \in DOMAIN slices :
        /\ ServiceNameLabel \in DOMAIN slices[k].labels
        /\ slices[k].labels[ServiceNameLabel] = serviceName
        /\ ClusterLabel \in DOMAIN slices[k].labels }

\* the slices the List of cleanupOrphanedSlices selects: in the namespace,
\* with kubernetes.io/service-name=serviceName and the cluster label present
orphanCandidates(slices, namespace, serviceName) ==
    { k \in DOMAIN slices :
        /\ k[1] = namespace
        /\ ServiceNameLabel \in DOMAIN slices[k].labels
        /\ slices[k].labels[ServiceNameLabel] = serviceName
        /\ ClusterLabel \in DOMAIN slices[k].labels }

\* (mutation) every cluster counts as active
isActive_always(activeClusters, clusterName) == TRUE

\* (mutation) the active clusters are not spared
isActive_never(activeClusters, clusterName) == FALSE

\* activeClusters.Has(clusterName)
isActive(activeClusters, clusterName) == clusterName \in activeClusters

\* the loop of cleanupOrphanedSlices over sliceList.Items; a failed Delete
\* returns at once
RECURSIVE deleteOrphans(_, _, _, _, _)
deleteOrphans(st, items, i, activeClusters, f) ==
    IF i > Len(items) THEN st
    ELSE LET key == items[i]
             clusterName == st.slices[key].labels[ClusterLabel]
         IN  IF isActive(activeClusters, clusterName)
             THEN deleteOrphans(st, items, i + 1, activeClusters, f)
             ELSE IF <<"delete", clusterName>> \in f
             THEN [st EXCEPT !.hits = @ \cup {<<"delete", clusterName>>}, !.cleanupErr = TRUE,
                             !.calls = Append(@, [verb |-> "delete", key |-> key, cluster |-> clusterName, ok |-> FALSE])]
             ELSE deleteOrphans([st EXCEPT !.slices = Without(@, key),
                                           !.calls = Append(@, [verb |-> "delete", key |-> key, cluster |-> clusterName, ok |-> TRUE])],
                                items, i + 1, activeClusters, f)

\* (mutation) the cleanup deletes nothing
cleanupOrphanedSlices_noop(st, items, activeClusterEndpoints, f) == st

\* cleanupOrphanedSlices; items is the order in which the List returned the
\* selected slices
cleanupOrphanedSlices(st, items, activeClusterEndpoints, f) ==
    LET activeClusters == { activeClusterEndpoints[i].ClusterName : i \in DOMAIN activeClusterEndpoints }
    IN  IF <<"list", <<>>>> \in f
        THEN [st EXCEPT !.hits = @ \cup {<<"list", <<>>>>}, !.cleanupErr = TRUE]
        ELSE deleteOrphans(st, items, 1, activeClusters, f)

\* the state a reconcile starts from
reconcileStart == [slices |-> localSlices, calls |-> <<>>, hits |-> {}, failed |-> {}, cleanupErr |-> FALSE]

\* what UpdateEndpointSlices returns when the reconcile ends in the state
\* fin: the errors of updateSliceForCluster and of cleanupOrphanedSlices are
\* logged, the return statement is "return nil"
UpdateEndpointSlicesReturn(fin) == "nil"

\* what syncService returns: the error of AggregateEndpoints (always nil) or
\* that of UpdateEndpointSlices
syncServiceReturn(fin) == UpdateEndpointSlicesReturn(fin)

\* UpdateEndpointSlices up to the cleanup
updatedSlices(namespace, serviceName, clusterEndpoints, f) ==
    updateSlices(reconcileStart, namespace, serviceName, clusterEndpoints, 1, f)

\* ------------------------------------------------------ Controller, ServiceUpdater

\* (mutation) every discovered service is kept
filterServicesExistingInLocalCluster_keepAll(includedNamespaces, svcs) == svcs

\* filterServicesExistingInLocalCluster
filterServicesExistingInLocalCluster(includedNamespaces, svcs) ==
    LET includedNSSet == Range(includedNamespaces)
        local == { k \in DOMAIN localServices :
                     /\ localServices[k] # 0
                     /\ ~(includedNSSet # {} /\ k[1] \notin includedNSSet) }
    IN  [k \in (DOMAIN svcs) \cap local |-> svcs[k]]

\* a UID no Service and no owner reference of the local store has
freshUID ==
    1 + CHOOSE m \in 0..(Cardinality(ServiceKeys) + Cardinality(DOMAIN localSlices) + 8) :
            /\ \A k \in DOMAIN localServices : localServices[k] <= m
            /\ \A k \in DOMAIN localSlices : \A r \in Range(localSlices[k].ownerReferences) : r.uid <= m
            /\ \/ m = 0
               \/ \E k \in DOMAIN localServices : localServices[k] = m
               \/ \E k \in DOMAIN localSlices : \E r \in Range(localSlices[k].ownerReferences) : r.uid = m

\* SyncServicesToLocalCluster that gets as far as creating the services of
\* created, in the given order
RECURSIVE createMissingServices(_, _, _)
createMissingServices(order, i, lsvcs) ==
    IF i > Len(order) THEN lsvcs
    ELSE createMissingServices(order, i + 1, [lsvcs EXCEPT ![order[i]] = freshUID + i - 1])

\* ------------------------------------------------------- the initial state
KubeconfigKinds == {"ok", "badBase64", "badConfig"}

NoStatus == [connected |-> FALSE, version |-> "", error |-> "", lastConnected |-> "nil",
             conditions |-> <<>>]

NewClusterLink(enabled, kubeconfig) ==
    [ spec |-> [enabled |-> enabled, kubeconfig |-> kubeconfig,
                excludedNamespaces |-> <<>>, includedNamespaces |-> <<>>,
                excludedServices |-> <<>>, excludedServiceNames |-> <<>>],
      status |-> NoStatus,
      rv |-> 0 ]

\* a ClusterLinkSpec without filters, no --included-namespaces
NoPolicy ==
    [ spec |-> [enabled |-> TRUE, kubeconfig |-> "ok",
                excludedNamespaces |-> <<>>, includedNamespaces |-> <<>>,
                excludedServices |-> <<>>, excludedServiceNames |-> <<>>],
      global |-> <<>> ]

Endpoint(addr, ready) == [addresses |-> <<addr>>, ready |-> ready]
HttpPort(p) == <<[name |-> "http", port |-> p]>>

NativeSlice(namespace, serviceName, endpoints, ports) ==
    [ namespace |-> namespace,
      labels |-> (ServiceNameLabel :> serviceName) @@ (ManagedByLabel :> NativeManagedBy),
      endpoints |-> endpoints, ports |-> ports ]

\* east has web (10.0.1.1, 10.0.1.2); west has api (10.0.2.2) and web
\* (10.0.2.1) and, running svclink itself, its own mirror of east's web
InitRemote ==
    (East :> [ up |-> TRUE, version |-> "v1.30",
               namespaces |-> <<Default, KubeSystem>>,
               services |-> <<WebKey, DnsKey>>,
               slices |-> << NativeSlice(Default, Web,
                                 <<Endpoint(<<1, 1>>, "true"), Endpoint(<<1, 2>>, "true")>>, HttpPort(8080)),
                             NativeSlice(KubeSystem, DnsKey[2], <<Endpoint(<<1, 9>>, "true")>>, HttpPort(53)) >>,
               forbidden |-> {} ])
    @@
    (West :> [ up |-> TRUE, version |-> "v1.29",
               namespaces |-> <<Default, KubeSystem>>,
               services |-> <<ApiKey, WebKey, DnsKey>>,
               slices |-> << NativeSlice(Default, Api, <<Endpoint(<<2, 2>>, "true")>>, HttpPort(9090)),
                             NativeSlice(Default, Web, <<Endpoint(<<2, 1>>, "true")>>, HttpPort(8080)),
                             [ namespace |-> Default,
                               labels |-> svclinkLabels(Web, East),
                               endpoints |-> <<Endpoint(<<1, 1>>, "true")>>,
                               ports |-> HttpPort(8080) ],
                             NativeSlice(KubeSystem, DnsKey[2], <<Endpoint(<<2, 9>>, "true")>>, HttpPort(53)) >>,
               forbidden |-> {} ])

\* the local cluster's own slice of web, kept by its endpointslice controller
LocalNativeKey == <<Default, <<"web", "abc">>>>
InitLocalSlices ==
    (LocalNativeKey :>
        [ labels |-> (ServiceNameLabel :> Web) @@ (ManagedByLabel :> NativeManagedBy),
          ownerReferences |-> <<[kind |-> "Service", name |-> Web, uid |-> 1]>>,
          addressType |-> "IPv4",
          endpoints |-> <<Endpoint(<<9, 1>>, "true")>>,
          ports |-> HttpPort(8080) ])

\* last: the step taken, and for a syncService the service, its contributing
\* clusters, the aggregation result, the local slices before the step, the
\* create/update/delete calls made, the clusters whose update returned an
\* error, whether the cleanup did, whether its List failed; for a registry or
\* discovery step the descriptors whose status was written; for a discovery
\* step the clusters whose discoverInCluster returned an error; for a
\* syncService what it returned and the keys sync appended to errs for it
NoLast == [op |-> "none", svc |-> <<>>, clusters |-> <<>>, groups |-> <<>>, before |-> <<>>,
           calls |-> <<>>, written |-> {}, failed |-> {}, cleanupErr |-> FALSE,
           listFailed |-> FALSE, discoverFailed |-> {}, ret |-> "nil", errs |-> {}]

Init ==
    /\ clusterLinks = (East :> NewClusterLink(TRUE, "ok")) @@ (West :> NewClusterLink(TRUE, "ok"))
    /\ localServices = (WebKey :> 1) @@ (ApiKey :> 0) @@ (DnsKey :> 3)
    /\ localSlices = InitLocalSlices
    /\ remote = InitRemote
    /\ \E b \in BOOLEAN : cfg = [IncludedNamespaces |-> <<>>, SyncServicesToLocalCluster |-> b]
    /\ pc = "idle"
    /\ clusterInfos = <<>> /\ services = <<>> /\ todo = {}
    /\ last = NoLast /\ envSteps = 0 /\ faults = 0
    /\ listing = <<>> /\ getOut = NoResult
    /\ policy = NoPolicy /\ verdict = NoResult
    /\ loop = NoLoop
    /\ naming = NoNaming

\* ------------------------------------------------------- Controller.sync

\* (mutation) the failed List is taken for an empty list and the cycle goes on
SyncListFails_goesOn ==
    /\ pc = "idle"
    /\ faults < MaxFaults
    /\ faults' = faults + 1
    /\ clusterInfos' = <<>>
    /\ pc' = "discover"
    /\ last' = [NoLast EXCEPT !.op = "ListClusterInfoFailed"]
    /\ UNCHANGED <<clusterLinks, localServices, localSlices, remote, cfg,
                   services, todo, envSteps, aggVars, fltVars, loopVars, nameVars>>

\* sync: kubeClient.List of the ClusterLinks fails, the cycle ends
SyncListFails ==
    /\ pc = "idle"
    /\ faults < MaxFaults
    /\ faults' = faults + 1
    /\ last' = [NoLast EXCEPT !.op = "ListClusterInfoFailed"]
    /\ UNCHANGED <<clusterLinks, localServices, localSlices, remote, cfg, pc, clusterInfos,
                   services, todo, envSteps, aggVars, fltVars, loopVars, nameVars>>

\* (mutation) a descriptor whose kubeconfig cannot be used is disabled
SyncListClusterInfo_disables ==
    /\ pc = "idle"
    /\ clusterInfos' = ListClusterInfo
    /\ clusterLinks' = [c \in DOMAIN clusterLinks |->
                          [clusterLinks[c] EXCEPT !.status = listedStatus(c),
                                                  !.spec.enabled = @ /\ connects(clusterLinks[c])]]
    /\ services' = <<>>
    /\ todo' = {}
    /\ pc' = "discover"
    /\ last' = [NoLast EXCEPT !.op = "ListClusterInfo", !.written = DOMAIN clusterLinks]
    /\ UNCHANGED <<localServices, localSlices, remote, cfg, envSteps, faults, aggVars, fltVars, loopVars, nameVars>>

\* sync: ListClusterInfo, with the status it writes for every descriptor
SyncListClusterInfo ==
    /\ pc = "idle"
    /\ clusterInfos' = ListClusterInfo
    /\ clusterLinks' = [c \in DOMAIN clusterLinks |-> [clusterLinks[c] EXCEPT !.status = listedStatus(c)]]
    /\ services' = <<>>
    /\ todo' = {}
    /\ pc' = "discover"
    /\ last' = [NoLast EXCEPT !.op = "ListClusterInfo", !.written = DOMAIN clusterLinks]
    /\ UNCHANGED <<localServices, localSlices, remote, cfg, envSteps, faults, aggVars, fltVars, loopVars, nameVars>>

\* the clusters whose Status().Update goes through: the descriptor is still
\* there, unchanged since it was listed
statusWritable == { c \in DOMAIN clusterInfos :
                      c \in DOMAIN clusterLinks /\ clusterLinks[c].rv = clusterInfos[c].ClusterLink.rv }

\* sync: DiscoverServices, ranging over the map in some order
SyncDiscoverServices ==
    /\ pc = "discover"
    /\ \E order \in Orders(DOMAIN clusterInfos) :
          LET r == DiscoverServices(order, 1, clusterInfos, Range(cfg.IncludedNamespaces),
                                    [services |-> <<>>, status |-> <<>>, errs |-> {}])
          IN  /\ services' = r.services
              /\ clusterInfos' = [c \in DOMAIN clusterInfos |->
                                    [clusterInfos[c] EXCEPT !.ClusterLink.status = r.status[c]]]
              /\ clusterLinks' = [c \in DOMAIN clusterLinks |->
                                    IF c \in statusWritable
                                    THEN [clusterLinks[c] EXCEPT !.status = r.status[c]]
                                    ELSE clusterLinks[c]]
              /\ last' = [NoLast EXCEPT !.op = "DiscoverServices", !.written = statusWritable,
                                         !.discoverFailed = r.errs]
    /\ pc' = "filter"
    /\ UNCHANGED <<localServices, localSlices, remote, cfg, todo, envSteps, faults, aggVars, fltVars, loopVars, nameVars>>

\* the range loop over services starts, or the cycle ends when it is empty
startLoop(svcs) ==
    /\ services' = svcs
    /\ todo' = DOMAIN svcs
    /\ pc' = IF DOMAIN svcs = {} THEN "idle" ELSE "sync"

\* sync: filterServicesExistingInLocalCluster
SyncFilterServices ==
    /\ pc = "filter"
    /\ ~cfg.SyncServicesToLocalCluster
    /\ startLoop(filterServicesExistingInLocalCluster(cfg.IncludedNamespaces, services))
    /\ last' = [NoLast EXCEPT !.op = "filterServices"]
    /\ UNCHANGED <<clusterLinks, localServices, localSlices, remote, cfg, clusterInfos,
                   envSteps, faults, aggVars, fltVars, loopVars, nameVars>>

\* sync: SyncServicesToLocalCluster creates the services missing locally
SyncServicesToLocalCluster ==
    /\ pc = "filter"
    /\ cfg.SyncServicesToLocalCluster
    /\ \E order \in Orders({ k \in DOMAIN services : localServices[k] = 0 }) :
          localServices' = createMissingServices(order, 1, localServices)
    /\ startLoop(services)
    /\ last' = [NoLast EXCEPT !.op = "SyncServicesToLocalCluster"]
    /\ UNCHANGED <<clusterLinks, localSlices, remote, cfg, clusterInfos, envSteps, faults, aggVars, fltVars, loopVars, nameVars>>

\* sync: the List of the local services, or a call of
\* SyncServicesToLocalCluster, fails; the cycle ends
SyncLocalServicesFail ==
    /\ pc = "filter"
    /\ faults < MaxFaults
    /\ faults' = faults + 1
    /\ IF cfg.SyncServicesToLocalCluster
       THEN \E created \in SUBSET { k \in DOMAIN services : localServices[k] = 0 } :
               \E order \in Orders(created) :
                   localServices' = createMissingServices(order, 1, localServices)
       ELSE UNCHANGED localServices
    /\ pc' = "idle"
    /\ last' = [NoLast EXCEPT !.op = "localServicesFailed"]
    /\ UNCHANGED <<clusterLinks, localSlices, remote, cfg, clusterInfos, services, todo,
                   envSteps, aggVars, fltVars, loopVars, nameVars>>

\* sync: syncService of one service of the range loop: AggregateEndpoints,
\* then UpdateEndpointSlices with its cleanup
SyncService(key) ==
    /\ pc = "sync"
    /\ key \in todo
    /\ \E svcInfo \in {services[key]} :
       \E groups \in {AggregateEndpoints(svcInfo.Namespace, svcInfo.Name, svcInfo.Clusters, 1,
                                         clusterInfos, <<>>)} :
       \E f \in SubsetsUpTo(FaultPoints, MaxFaults - faults) :
       \E upd \in {updatedSlices(svcInfo.Namespace, svcInfo.Name, groups, f)} :
       \E items \in Orders(orphanCandidates(upd.slices, svcInfo.Namespace, svcInfo.Name)) :
       \E fin \in {cleanupOrphanedSlices(upd, items, groups, f)} :
          /\ fin.hits = f
          /\ localSlices' = fin.slices
          /\ faults' = faults + Cardinality(f)
          /\ last' = [NoLast EXCEPT !.op = "syncService", !.svc = key,
                         !.clusters = svcInfo.Clusters, !.groups = groups,
                         !.before = localSlices,
                         !.calls = fin.calls, !.failed = fin.failed,
                         !.cleanupErr = fin.cleanupErr,
                         !.listFailed = <<"list", <<>>>> \in fin.hits,
                         !.ret = syncServiceReturn(fin),
                         !.errs = IF syncServiceReturn(fin) # "nil"
                                  THEN {key} ELSE {}]
    /\ todo' = todo \ {key}
    /\ pc' = IF todo \ {key} = {} THEN "idle" ELSE "sync"
    /\ UNCHANGED <<clusterLinks, localServices, remote, cfg, clusterInfos, services, envSteps, aggVars, fltVars, loopVars, nameVars>>

\* ------------------------------------------- users and remote clusters
envStep ==
    /\ envSteps < MaxEnv
    /\ envSteps' = envSteps + 1
    /\ last' = [NoLast EXCEPT !.op = "env"]

\* kubectl patch clusterlink c -p '{"spec":{"enabled":...}}'
SetEnabled(c) ==
    /\ envStep
    /\ c \in DOMAIN clusterLinks
    /\ clusterLinks' = [clusterLinks EXCEPT ![c].spec.enabled = ~@, ![c].rv = @ + 1]
    /\ UNCHANGED <<localServices, localSlices, remote, cfg, pc, clusterInfos, services, todo,
                   faults, aggVars, fltVars, loopVars, nameVars>>

\* kubectl delete clusterlink c
DeleteClusterLink(c) ==
    /\ envStep
    /\ c \in DOMAIN clusterLinks
    /\ clusterLinks' = Without(clusterLinks, c)
    /\ UNCHANGED <<localServices, localSlices, remote, cfg, pc, clusterInfos, services, todo,
                   faults, aggVars, fltVars, loopVars, nameVars>>

\* the remote cluster c becomes unreachable, or reachable again
SetReachable(c) ==
    /\ envStep
    /\ remote' = [remote EXCEPT ![c].up = ~@]
    /\ UNCHANGED <<clusterLinks, localServices, localSlices, cfg, pc, clusterInfos, services,
                   todo, faults, aggVars, fltVars, loopVars, nameVars>>

\* the readiness of an endpoint of a native slice of web in the remote
\* cluster c changes
SetReady(c, k, j, v) ==
    /\ envStep
    /\ k \in 1..Len(remote[c].slices)
    /\ remote[c].slices[k].namespace = Default
    /\ remote[c].slices[k].labels[ServiceNameLabel] = Web
    /\ ClusterLabel \notin DOMAIN remote[c].slices[k].labels
    /\ j \in 1..Len(remote[c].slices[k].endpoints)
    /\ remote[c].slices[k].endpoints[j].ready # v
    /\ remote' = [remote EXCEPT ![c].slices[k].endpoints[j].ready = v]
    /\ UNCHANGED <<clusterLinks, localServices, localSlices, cfg, pc, clusterInfos, services,
                   todo, faults, aggVars, fltVars, loopVars, nameVars>>

\* kubectl delete service / kubectl create service in the local cluster
DeleteLocalService(key) ==
    /\ envStep
    /\ localServices[key] # 0
    /\ localServices' = [localServices EXCEPT ![key] = 0]
    /\ UNCHANGED <<clusterLinks, localSlices, remote, cfg, pc, clusterInfos, services, todo,
                   faults, aggVars, fltVars, loopVars, nameVars>>

CreateLocalService(key) ==
    /\ envStep
    /\ localServices[key] = 0
    /\ localServices' = [localServices EXCEPT ![key] = freshUID]
    /\ UNCHANGED <<clusterLinks, localSlices, remote, cfg, pc, clusterInfos, services, todo,
                   faults, aggVars, fltVars, loopVars, nameVars>>

\* the local garbage collector removes a slice whose owner is gone
GarbageCollect(k) ==
    /\ k \in DOMAIN localSlices
    /\ \A r \in Range(localSlices[k].ownerReferences) :
          \A key \in DOMAIN localServices : localServices[key] # r.uid
    /\ localSlices' = Without(localSlices, k)
    /\ last' = [NoLast EXCEPT !.op = "env"]
    /\ UNCHANGED <<clusterLinks, localServices, remote, cfg, pc, clusterInfos, services, todo,
                   envSteps, faults, aggVars, fltVars, loopVars, nameVars>>

\* the changes explored: west is the cluster that is disabled, removed or
\* cut off, east the one whose endpoints change
Env ==
    \/ SetEnabled(West)
    \/ SetReachable(West)
    \/ \E j \in 1..2, v \in {"true", "false"} : SetReady(East, 1, j, v)
    \/ \E v \in {"true", "nil"} : SetReady(West, 2, 1, v)

Next ==
    \/ SyncListFails
    \/ SyncListClusterInfo
    \/ SyncDiscoverServices
    \/ SyncFilterServices
    \/ SyncServicesToLocalCluster
    \/ SyncLocalServicesFail
    \/ \E key \in ServiceKeys : SyncService(key)
    \/ Env

Spec == Init /\ [][Next]_vars

\* ------------------------------------ SpecReg: kubeconfigs good and bad

\* kubectl patch clusterlink c -p '{"spec":{"kubeconfig":...}}'
SetKubeconfig(c, kind) ==
    /\ envStep
    /\ c \in DOMAIN clusterLinks
    /\ clusterLinks[c].spec.kubeconfig # kind
    /\ clusterLinks' = [clusterLinks EXCEPT ![c].spec.kubeconfig = kind, ![c].rv = @ + 1]
    /\ UNCHANGED <<localServices, localSlices, remote, cfg, pc, clusterInfos, services, todo,
                   faults, aggVars, fltVars, loopVars, nameVars>>

\* east starts with any kind of kubeconfig
InitReg ==
    /\ \E kind \in KubeconfigKinds :
          clusterLinks = (East :> NewClusterLink(TRUE, kind)) @@ (West :> NewClusterLink(TRUE, "ok"))
    /\ localServices = (WebKey :> 1) @@ (ApiKey :> 0) @@ (DnsKey :> 3)
    /\ localSlices = InitLocalSlices
    /\ remote = InitRemote
    /\ \E b \in BOOLEAN : cfg = [IncludedNamespaces |-> <<>>, SyncServicesToLocalCluster |-> b]
    /\ pc = "idle"
    /\ clusterInfos = <<>> /\ services = <<>> /\ todo = {}
    /\ last = NoLast /\ envSteps = 0 /\ faults = 0
    /\ listing = <<>> /\ getOut = NoResult
    /\ policy = NoPolicy /\ verdict = NoResult
    /\ loop = NoLoop
    /\ naming = NoNaming

\* east's kubeconfig is replaced; west is cut off and reconnected
EnvReg ==
    \/ \E kind \in KubeconfigKinds : SetKubeconfig(East, kind)
    \/ SetReachable(West)

NextReg ==
    \/ SyncListFails
    \/ SyncListClusterInfo
    \/ SyncDiscoverServices
    \/ SyncFilterServices
    \/ SyncServicesToLocalCluster
    \/ SyncLocalServicesFail
    \/ \E key \in ServiceKeys : SyncService(key)
    \/ EnvReg

SpecReg == InitReg /\ [][NextReg]_vars

\* --------------------------------- SpecLife: clusters removed and cut off

\* west is deleted, or cut off and reconnected
EnvLife ==
    \/ DeleteClusterLink(West)
    \/ SetReachable(West)

NextLife ==
    \/ SyncListFails
    \/ SyncListClusterInfo
    \/ SyncDiscoverServices
    \/ SyncFilterServices
    \/ SyncServicesToLocalCluster
    \/ SyncLocalServicesFail
    \/ \E key \in ServiceKeys : SyncService(key)
    \/ EnvLife

SpecLife == Init /\ [][NextLife]_vars

\* ------------------------------------- SpecFilter: policies and discovery

Prod == "prod"
\* the namespaces asked about: "" is the empty namespace string
NsUniverse == {Default, KubeSystem, Prod, ""}
\* "Web" differs from "web" by case only
WebUpper == <<"Web">>
NameUniverse == {Web, WebUpper, Kubernetes}
SvcUniverse == NsUniverse \X NameUniverse

\* the cluster whose services are discovered under the policy
FilterRemote ==
    (East :> [ up |-> TRUE, version |-> "v1.30",
               namespaces |-> <<Default, KubeSystem, Prod>>,
               services |-> << <<Default, Web>>, <<Default, Kubernetes>>, <<Default, WebUpper>>,
                               <<KubeSystem, Web>>, <<KubeSystem, Kubernetes>>,
                               <<Prod, Web>>, <<Prod, Kubernetes>> >>,
               slices |-> <<>>,
               forbidden |-> {} ])

policySize ==
    Len(policy.spec.excludedNamespaces) + Len(policy.spec.includedNamespaces)
        + Len(policy.spec.excludedServices) + Len(policy.spec.excludedServiceNames)
        + Len(policy.global)

InitFilter ==
    /\ policy = NoPolicy
    /\ verdict = NoResult
    /\ loop = NoLoop
    /\ naming = NoNaming
    /\ remote = FilterRemote
    /\ clusterLinks = <<>> /\ localServices = <<>> /\ localSlices = <<>>
    /\ cfg = <<>> /\ pc = "off"
    /\ clusterInfos = <<>> /\ services = <<>> /\ todo = {}
    /\ last = NoLast /\ envSteps = 0 /\ faults = 0
    /\ listing = <<>> /\ getOut = NoResult

canAdd == verdict = NoResult /\ policySize < MaxPolicy

\* one more entry in a list of the ClusterLinkSpec, or of --included-namespaces
AddExcludedNamespace(ns) ==
    /\ canAdd
    /\ policy' = [policy EXCEPT !.spec.excludedNamespaces = Append(@, ns)]
    /\ UNCHANGED <<verdict, sysVars, aggVars, loopVars, nameVars>>

AddIncludedNamespace(ns) ==
    /\ canAdd
    /\ policy' = [policy EXCEPT !.spec.includedNamespaces = Append(@, ns)]
    /\ UNCHANGED <<verdict, sysVars, aggVars, loopVars, nameVars>>

AddExcludedService(key) ==
    /\ canAdd
    /\ policy' = [policy EXCEPT !.spec.excludedServices = Append(@, key)]
    /\ UNCHANGED <<verdict, sysVars, aggVars, loopVars, nameVars>>

AddExcludedServiceName(name) ==
    /\ canAdd
    /\ policy' = [policy EXCEPT !.spec.excludedServiceNames = Append(@, name)]
    /\ UNCHANGED <<verdict, sysVars, aggVars, loopVars, nameVars>>

AddGlobalNamespace(ns) ==
    /\ canAdd
    /\ policy' = [policy EXCEPT !.global = Append(@, ns)]
    /\ UNCHANGED <<verdict, sysVars, aggVars, loopVars, nameVars>>

\* the sets and the filters of the ClusterLinkSpec applied to every namespace
\* and service asked about, and discoverInCluster run on the cluster
ApplyFilters ==
    /\ verdict = NoResult
    /\ LET spec == policy.spec
           excludedNS == ToExcludedNamespaceSet(spec)
           includedNS == ToIncludedNamespaceSet(spec)
           excludedSvc == ToExcludedServiceSet(spec)
           excludedSvcName == ToExcludedServiceNameSet(spec)
           info == [Name |-> East, Enabled |-> TRUE, Client |-> East,
                    ClusterLink |-> [spec |-> spec, status |-> NoStatus, rv |-> 0]]
       IN  verdict' =
             [ kind |-> "ok",
               excludedNS |-> excludedNS,
               excludedSvcName |-> excludedSvcName,
               namespace |-> [ns \in NsUniverse |-> ShouldExcludeNamespace(ns, excludedNS, includedNS)],
               service |-> [k \in SvcUniverse |->
                              ShouldExcludeService(k[1], k[2], excludedSvc, excludedSvcName)],
               listed |-> listedNamespaces(spec, remote[East].namespaces, Range(policy.global)),
               discovered |-> discoverInCluster(East, info, <<>>, Range(policy.global)).services ]
    /\ UNCHANGED <<policy, sysVars, aggVars, loopVars, nameVars>>

NextFilter ==
    \/ \E ns \in NsUniverse \ {""} : AddExcludedNamespace(ns)
    \/ \E ns \in NsUniverse \ {""} : AddIncludedNamespace(ns)
    \/ \E key \in {<<Default, Web>>, <<KubeSystem, Web>>, <<Prod, WebUpper>>} : AddExcludedService(key)
    \/ \E name \in {Web, Kubernetes} : AddExcludedServiceName(name)
    \/ \E ns \in {Default, Prod} : AddGlobalNamespace(ns)
    \/ ApplyFilters

SpecFilter == InitFilter /\ [][NextFilter]_vars

\* ------------------------- SpecDisc: discovery with Lists that are refused

ProdWebKey == <<Prod, Web>>
DiscServiceKeys == ServiceKeys \cup {ProdWebKey}

\* both clusters have the namespace prod, listed after default, with prod/web
DiscRemote ==
    [c \in Clusters |->
        [InitRemote[c] EXCEPT !.namespaces = <<Default, KubeSystem, Prod>>,
                              !.services = Append(@, ProdWebKey)]]

InitDisc ==
    /\ clusterLinks = (East :> NewClusterLink(TRUE, "ok")) @@ (West :> NewClusterLink(TRUE, "ok"))
    /\ localServices = (WebKey :> 1) @@ (ApiKey :> 0) @@ (DnsKey :> 3) @@ (ProdWebKey :> 4)
    /\ localSlices = InitLocalSlices
    /\ remote = DiscRemote
    /\ \E b \in BOOLEAN : cfg = [IncludedNamespaces |-> <<>>, SyncServicesToLocalCluster |-> b]
    /\ pc = "idle"
    /\ clusterInfos = <<>> /\ services = <<>> /\ todo = {}
    /\ last = NoLast /\ envSteps = 0 /\ faults = 0
    /\ listing = <<>> /\ getOut = NoResult
    /\ policy = NoPolicy /\ verdict = NoResult
    /\ loop = NoLoop
    /\ naming = NoNaming

\* the remote cluster c starts, or stops, refusing to list the services of
\* a namespace
SetForbidden(c, namespace) ==
    /\ envStep
    /\ remote' = [remote EXCEPT ![c].forbidden =
                     IF namespace \in @ THEN @ \ {namespace} ELSE @ \cup {namespace}]
    /\ UNCHANGED <<clusterLinks, localServices, localSlices, cfg, pc, clusterInfos, services,
                   todo, faults, aggVars, fltVars, loopVars, nameVars>>

\* west refuses the services of prod, or is cut off; east's descriptor is
\* edited
EnvDisc ==
    \/ SetForbidden(West, Prod)
    \/ SetReachable(West)
    \/ SetEnabled(East)

NextDisc ==
    \/ SyncListFails
    \/ SyncListClusterInfo
    \/ SyncDiscoverServices
    \/ SyncFilterServices
    \/ SyncServicesToLocalCluster
    \/ SyncLocalServicesFail
    \/ \E key \in DiscServiceKeys : SyncService(key)
    \/ EnvDisc

SpecDisc == InitDisc /\ [][NextDisc]_vars

\* ------------- SpecUnion: discovery under policies and services that change

\* kubectl patch clusterlink c: the namespace is put in, or taken out of,
\* spec.excludedNamespaces / spec.includedNamespaces
ToggleExcludedNamespace(c, namespace) ==
    /\ envStep
    /\ c \in DOMAIN clusterLinks
    /\ clusterLinks' = [clusterLinks EXCEPT
                           ![c].spec.excludedNamespaces =
                               IF namespace \in Range(@) THEN SelectSeq(@, LAMBDA n : n # namespace)
                               ELSE Append(@, namespace),
                           ![c].rv = @ + 1]
    /\ UNCHANGED <<localServices, localSlices, remote, cfg, pc, clusterInfos, services, todo,
                   faults, aggVars, fltVars, loopVars, nameVars>>

ToggleIncludedNamespace(c, namespace) ==
    /\ envStep
    /\ c \in DOMAIN clusterLinks
    /\ clusterLinks' = [clusterLinks EXCEPT
                           ![c].spec.includedNamespaces =
                               IF namespace \in Range(@) THEN SelectSeq(@, LAMBDA n : n # namespace)
                               ELSE Append(@, namespace),
                           ![c].rv = @ + 1]
    /\ UNCHANGED <<localServices, localSlices, remote, cfg, pc, clusterInfos, services, todo,
                   faults, aggVars, fltVars, loopVars, nameVars>>

\* the same for a namespace/name entry of spec.excludedServices
ToggleExcludedService(c, key) ==
    /\ envStep
    /\ c \in DOMAIN clusterLinks
    /\ clusterLinks' = [clusterLinks EXCEPT
                           ![c].spec.excludedServices =
                               IF key \in Range(@) THEN SelectSeq(@, LAMBDA k : k # key)
                               ELSE Append(@, key),
                           ![c].rv = @ + 1]
    /\ UNCHANGED <<localServices, localSlices, remote, cfg, pc, clusterInfos, services, todo,
                   faults, aggVars, fltVars, loopVars, nameVars>>

\* kubectl delete service in the remote cluster c
DeleteRemoteService(c, key) ==
    /\ envStep
    /\ key \in Range(remote[c].services)
    /\ remote' = [remote EXCEPT ![c].services = SelectSeq(@, LAMBDA k : k # key)]
    /\ UNCHANGED <<clusterLinks, localServices, localSlices, cfg, pc, clusterInfos, services,
                   todo, faults, aggVars, fltVars, loopVars, nameVars>>

\* the values of --included-namespaces explored
GlobalChoices == {<<>>, <<Default>>}

\* the clusters of SpecDisc; the local cluster has none of the services the
\* remote clusters offer outside kube-system, and does not create them
InitUnion ==
    /\ clusterLinks = (East :> NewClusterLink(TRUE, "ok")) @@ (West :> NewClusterLink(TRUE, "ok"))
    /\ localServices = (WebKey :> 0) @@ (ApiKey :> 0) @@ (DnsKey :> 3) @@ (ProdWebKey :> 0)
    /\ localSlices = InitLocalSlices
    /\ remote = DiscRemote
    /\ \E g \in GlobalChoices : cfg = [IncludedNamespaces |-> g, SyncServicesToLocalCluster |-> FALSE]
    /\ pc = "idle"
    /\ clusterInfos = <<>> /\ services = <<>> /\ todo = {}
    /\ last = NoLast /\ envSteps = 0 /\ faults = 0
    /\ listing = <<>> /\ getOut = NoResult
    /\ policy = NoPolicy /\ verdict = NoResult
    /\ loop = NoLoop
    /\ naming = NoNaming

\* west refuses the services of prod; the policies of the descriptors are
\* edited; a service of a remote cluster is deleted
EnvUnion ==
    \/ SetForbidden(West, Prod)
    \/ ToggleExcludedNamespace(West, Prod)
    \/ ToggleIncludedNamespace(East, Default)
    \/ ToggleExcludedService(East, WebKey)
    \/ DeleteRemoteService(West, ApiKey)

\* no discovered service exists in the local cluster, so the range loop of
\* sync has no service to visit
NextUnion ==
    \/ SyncListFails
    \/ SyncListClusterInfo
    \/ SyncDiscoverServices
    \/ SyncFilterServices
    \/ SyncLocalServicesFail
    \/ EnvUnion

SpecUnion == InitUnion /\ [][NextUnion]_vars

\* ---------------- SpecEdit: local services replaced, local slices labelled

\* a label of the user's own
TeamLabel == "team"

\* kubectl replace --force of a local service: the same name, a new UID
ReplaceLocalService(key) ==
    /\ envStep
    /\ localServices[key] # 0
    /\ localServices' = [localServices EXCEPT ![key] = freshUID]
    /\ UNCHANGED <<clusterLinks, localSlices, remote, cfg, pc, clusterInfos, services, todo,
                   faults, aggVars, fltVars, loopVars, nameVars>>

\* kubectl label endpointslice k team=...
LabelLocalSlice(k) ==
    /\ envStep
    /\ k \in DOMAIN localSlices
    /\ TeamLabel \notin DOMAIN localSlices[k].labels
    /\ localSlices' = [localSlices EXCEPT ![k].labels = @ @@ (TeamLabel :> "blue")]
    /\ UNCHANGED <<clusterLinks, localServices, remote, cfg, pc, clusterInfos, services, todo,
                   faults, aggVars, fltVars, loopVars, nameVars>>

\* the controller runs without --sync-services-to-local-cluster
InitEdit ==
    /\ clusterLinks = (East :> NewClusterLink(TRUE, "ok")) @@ (West :> NewClusterLink(TRUE, "ok"))
    /\ localServices = (WebKey :> 1) @@ (ApiKey :> 0) @@ (DnsKey :> 3)
    /\ localSlices = InitLocalSlices
    /\ remote = InitRemote
    /\ cfg = [IncludedNamespaces |-> <<>>, SyncServicesToLocalCluster |-> FALSE]
    /\ pc = "idle"
    /\ clusterInfos = <<>> /\ services = <<>> /\ todo = {}
    /\ last = NoLast /\ envSteps = 0 /\ faults = 0
    /\ listing = <<>> /\ getOut = NoResult
    /\ policy = NoPolicy /\ verdict = NoResult
    /\ loop = NoLoop
    /\ naming = NoNaming

\* default/web is replaced, a slice of the local cluster is labelled, an
\* endpoint of east stops being ready
EnvEdit ==
    \/ ReplaceLocalService(WebKey)
    \/ \E k \in DOMAIN localSlices : LabelLocalSlice(k)
    \/ SetReady(East, 1, 2, "false")

NextEdit ==
    \/ SyncListFails
    \/ SyncListClusterInfo
    \/ SyncDiscoverServices
    \/ SyncFilterServices
    \/ SyncLocalServicesFail
    \/ \E key \in ServiceKeys : SyncService(key)
    \/ EnvEdit

SpecEdit == InitEdit /\ [][NextEdit]_vars

\* ------- SpecConv: cycles without failures, the world changing between them

\* syncService of one service, no call failing
SyncServiceClean(key) == faults' = faults /\ SyncService(key)

\* a step of sync that makes no failing call
SyncStep ==
    \/ SyncListClusterInfo
    \/ SyncDiscoverServices
    \/ SyncFilterServices
    \/ SyncServicesToLocalCluster
    \/ \E key \in ServiceKeys : SyncServiceClean(key)

\* sync is not running
BetweenCycles == pc = "idle"

\* every call succeeds (no fault is injected) and nothing changes while a
\* cycle runs; between two cycles an endpoint of east changes its readiness,
\* the only endpoint of web in west does, west is disabled or enabled, west's
\* service web is deleted
NextConv ==
    \/ SyncListClusterInfo
    \/ SyncDiscoverServices
    \/ SyncFilterServices
    \/ SyncServicesToLocalCluster
    \/ \E key \in ServiceKeys : SyncServiceClean(key)
    \/ BetweenCycles /\ \E j \in 1..2, v \in {"true", "false"} : SetReady(East, 1, j, v)
    \/ BetweenCycles /\ \E v \in {"true", "nil"} : SetReady(West, 2, 1, v)
    \/ BetweenCycles /\ SetEnabled(West)
    \/ BetweenCycles /\ DeleteRemoteService(West, WebKey)

\* syncLoop calls sync again and again, and sync runs to its end
SpecConv == Init /\ [][NextConv]_vars /\ WF_vars(SyncStep)

\* ------------ SpecOrphan: a service that loses its endpoints in every cluster

\* the workload behind the k-th slice of the remote cluster c is scaled to
\* zero: the slice stays, without endpoints
ScaleToZero(c, k) ==
    /\ envStep
    /\ k \in 1..Len(remote[c].slices)
    /\ ClusterLabel \notin DOMAIN remote[c].slices[k].labels
    /\ remote[c].slices[k].endpoints # <<>>
    /\ remote' = [remote EXCEPT ![c].slices[k].endpoints = <<>>]
    /\ UNCHANGED <<clusterLinks, localServices, localSlices, cfg, pc, clusterInfos, services,
                   todo, faults, aggVars, fltVars, loopVars, nameVars>>

\* web is scaled to zero in east; west is cut off and reconnected
EnvOrphan ==
    \/ ScaleToZero(East, 1)
    \/ SetReachable(West)

NextOrphan ==
    \/ SyncListFails
    \/ SyncListClusterInfo
    \/ SyncDiscoverServices
    \/ SyncFilterServices
    \/ SyncLocalServicesFail
    \/ \E key \in ServiceKeys : SyncService(key)
    \/ EnvOrphan

SpecOrphan == InitEdit /\ [][NextOrphan]_vars

\* ------------ SpecScope: services of the same name in two namespaces

\* both clusters have prod/web as well, with one ready endpoint each
ScopeRemote ==
    [c \in Clusters |->
        [DiscRemote[c] EXCEPT !.slices =
            Append(@, NativeSlice(Prod, Web,
                                  <<Endpoint(<<IF c = East THEN 1 ELSE 2, 5>>, "true")>>,
                                  HttpPort(8080)))]]

\* default/web, default/api and prod/web exist in the local cluster
InitScope ==
    /\ clusterLinks = (East :> NewClusterLink(TRUE, "ok")) @@ (West :> NewClusterLink(TRUE, "ok"))
    /\ localServices = (WebKey :> 1) @@ (ApiKey :> 2) @@ (DnsKey :> 3) @@ (ProdWebKey :> 4)
    /\ localSlices = InitLocalSlices
    /\ remote = ScopeRemote
    /\ cfg = [IncludedNamespaces |-> <<>>, SyncServicesToLocalCluster |-> FALSE]
    /\ pc = "idle"
    /\ clusterInfos = <<>> /\ services = <<>> /\ todo = {}
    /\ last = NoLast /\ envSteps = 0 /\ faults = 0
    /\ listing = <<>> /\ getOut = NoResult
    /\ policy = NoPolicy /\ verdict = NoResult
    /\ loop = NoLoop
    /\ naming = NoNaming

\* west is cut off and reconnected
NextScope ==
    \/ SyncListFails
    \/ SyncListClusterInfo
    \/ SyncDiscoverServices
    \/ SyncFilterServices
    \/ SyncLocalServicesFail
    \/ \E key \in DiscServiceKeys : SyncService(key)
    \/ SetReachable(West)

SpecScope == InitScope /\ [][NextScope]_vars

\* ----------------------- SpecLoop: syncLoop, its timer and the cancellation

\* what is left alone by a step of the loop that is not a step of sync
loopFrame == <<clusterLinks, localServices, localSlices, remote, cfg, pc, clusterInfos,
               services, todo, envSteps, faults, aggVars, fltVars, nameVars>>

InitLoop ==
    /\ clusterLinks = (East :> NewClusterLink(TRUE, "ok")) @@ (West :> NewClusterLink(TRUE, "ok"))
    /\ localServices = (WebKey :> 1) @@ (ApiKey :> 0) @@ (DnsKey :> 3)
    /\ localSlices = InitLocalSlices
    /\ remote = InitRemote
    /\ \E b \in BOOLEAN : cfg = [IncludedNamespaces |-> <<>>, SyncServicesToLocalCluster |-> b]
    /\ pc = "idle"
    /\ clusterInfos = <<>> /\ services = <<>> /\ todo = {}
    /\ last = NoLast /\ envSteps = 0 /\ faults = 0
    /\ listing = <<>> /\ getOut = NoResult
    /\ policy = NoPolicy /\ verdict = NoResult
    /\ loop = [NoLoop EXCEPT !.pc = "check"]
    /\ naming = NoNaming

\* (mutation) a ticker starts sync in a goroutine of its own at every interval
LoopCheck_ticker ==
    /\ \/ loop.pc = "check"
       \/ loop.pc = "sync" /\ loop.took >= SyncInterval
    /\ ~loop.cancelled
    /\ loop.cycles < MaxCycles
    /\ loop' = [loop EXCEPT !.pc = "sync", !.cycles = @ + 1, !.prevTook = loop.took, !.took = 0]
    /\ last' = [NoLast EXCEPT !.op = "called"]
    /\ UNCHANGED loopFrame

\* wait.UntilWithContext, top of its loop: return when ctx is done, else call
\* sync
LoopCheck ==
    /\ loop.pc = "check"
    /\ IF loop.cancelled
       THEN /\ loop' = [loop EXCEPT !.pc = "stopped"]
            /\ UNCHANGED last
       ELSE /\ loop.cycles < MaxCycles
            /\ loop' = [loop EXCEPT !.pc = "sync", !.cycles = @ + 1, !.prevTook = loop.took, !.took = 0]
            /\ last' = [NoLast EXCEPT !.op = "called"]
    /\ UNCHANGED loopFrame

\* sync has been called and has not returned
Running == loop.pc = "sync"
\* sync stands at its first statement / has run to a return
AtEntry == Running /\ pc = "idle" /\ last.op = "called"
AtReturn == Running /\ pc = "idle" /\ last.op # "called"

\* sync returns: the timer of the interval is set (sliding)
LoopReturn ==
    /\ AtReturn
    /\ loop' = [loop EXCEPT !.pc = "wait", !.timer = 0, !.returned = @ + 1]
    /\ last' = [NoLast EXCEPT !.op = "returned"]
    /\ UNCHANGED loopFrame

\* the select on ctx.Done() and the timer
LoopWait ==
    /\ loop.pc = "wait"
    /\ \/ loop.cancelled /\ loop' = [loop EXCEPT !.pc = "stopped"]
       \/ loop.timer >= SyncInterval /\ loop' = [loop EXCEPT !.pc = "check"]
    /\ UNCHANGED <<last, loopFrame>>

\* time passes: for the timer while the loop waits, for the cycle while sync
\* runs (a cycle can take longer than the interval)
Tick ==
    /\ \/ loop.pc = "wait" /\ loop.timer < SyncInterval /\ loop' = [loop EXCEPT !.timer = @ + 1]
       \/ loop.pc = "sync" /\ loop.took <= SyncInterval /\ loop' = [loop EXCEPT !.took = @ + 1]
    /\ UNCHANGED <<last, loopFrame>>

\* SIGINT or SIGTERM: cancel()
Cancel ==
    /\ loop.pc \in {"check", "sync", "wait"}
    /\ ~loop.cancelled
    /\ loop' = [loop EXCEPT !.cancelled = TRUE]
    /\ UNCHANGED <<last, loopFrame>>

\* Run returns on ctx.Done() and the process ends, wherever sync stands
ProcessExit ==
    /\ loop.cancelled
    /\ loop.pc \in {"check", "sync", "wait", "stopped"}
    /\ loop' = [loop EXCEPT !.pc = "exited"]
    /\ UNCHANGED <<last, loopFrame>>

\* the steps of sync once ctx is done: the calls that take ctx and go to an
\* API server fail (remote Lists, Create, Update, Delete, Status().Update);
\* the reads of the local cache succeed or fail; the version probe takes no
\* ctx

\* ListClusterInfo under a done ctx: no status is stored
CancelledListClusterInfo ==
    /\ pc = "idle"
    /\ \/ /\ pc' = "idle"
          /\ last' = [NoLast EXCEPT !.op = "ListClusterInfoFailed"]
          /\ UNCHANGED <<clusterInfos, services, todo>>
       \/ /\ clusterInfos' = ListClusterInfo
          /\ services' = <<>>
          /\ todo' = {}
          /\ pc' = "discover"
          /\ last' = [NoLast EXCEPT !.op = "ListClusterInfo"]
    /\ UNCHANGED <<clusterLinks, localServices, localSlices, remote, cfg, envSteps, faults,
                   aggVars, fltVars, loopVars, nameVars>>

\* DiscoverServices under a done ctx: every Namespaces List fails
CancelledDiscoverServices ==
    /\ pc = "discover"
    /\ services' = <<>>
    /\ clusterInfos' = [c \in DOMAIN clusterInfos |->
                          [clusterInfos[c] EXCEPT !.ClusterLink.status =
                              UpdateClusterSyncError(clusterInfos[c], TRUE)]]
    /\ pc' = "filter"
    /\ last' = [NoLast EXCEPT !.op = "DiscoverServices", !.discoverFailed = DOMAIN clusterInfos]
    /\ UNCHANGED <<clusterLinks, localServices, localSlices, remote, cfg, todo, envSteps, faults,
                   aggVars, fltVars, loopVars, nameVars>>

\* SyncServicesToLocalCluster or filterServicesExistingInLocalCluster under a
\* done ctx: a read of the cache or a Create fails and sync returns, or
\* nothing is to be created and the range loop starts
CancelledLocalServices ==
    /\ pc = "filter"
    /\ \/ /\ DOMAIN services # {}
          /\ pc' = "idle"
          /\ last' = [NoLast EXCEPT !.op = "localServicesFailed"]
          /\ UNCHANGED <<services, todo>>
       \/ /\ cfg.SyncServicesToLocalCluster
          /\ \A k \in DOMAIN services : localServices[k] # 0
          /\ startLoop(services)
          /\ last' = [NoLast EXCEPT !.op = "SyncServicesToLocalCluster"]
       \/ /\ ~cfg.SyncServicesToLocalCluster
          /\ startLoop(filterServicesExistingInLocalCluster(cfg.IncludedNamespaces, services))
          /\ last' = [NoLast EXCEPT !.op = "filterServices"]
    /\ UNCHANGED <<clusterLinks, localServices, localSlices, remote, cfg, clusterInfos,
                   envSteps, faults, aggVars, fltVars, loopVars, nameVars>>

\* the calls of a reconcile that fail under a done ctx
CancelledFaults == {"write", "delete"} \X Clusters

\* syncService under a done ctx: every remote List fails, so no cluster has
\* an entry; the cleanup lists the slices and its first Delete fails
CancelledSyncService(key) ==
    /\ pc = "sync"
    /\ key \in todo
    /\ LET svcInfo == services[key]
       IN  \E f \in {CancelledFaults, CancelledFaults \cup {<<"list", <<>>>>}} :
             \E items \in Orders(orphanCandidates(localSlices, svcInfo.Namespace, svcInfo.Name)) :
                LET fin == cleanupOrphanedSlices(reconcileStart, items, <<>>, f)
                IN  /\ localSlices' = fin.slices
                    /\ last' = [NoLast EXCEPT !.op = "syncService", !.svc = key,
                                   !.clusters = svcInfo.Clusters, !.groups = <<>>,
                                   !.before = localSlices,
                                   !.calls = fin.calls, !.failed = fin.failed,
                                   !.cleanupErr = fin.cleanupErr,
                                   !.listFailed = <<"list", <<>>>> \in fin.hits,
                                   !.ret = syncServiceReturn(fin),
                                   !.errs = IF syncServiceReturn(fin) # "nil"
                                            THEN {key} ELSE {}]
    /\ todo' = todo \ {key}
    /\ pc' = IF todo \ {key} = {} THEN "idle" ELSE "sync"
    /\ UNCHANGED <<clusterLinks, localServices, remote, cfg, clusterInfos, services, envSteps,
                   faults, aggVars, fltVars, loopVars, nameVars>>

NextLoop ==
    \/ LoopCheck
    \/ LoopReturn
    \/ LoopWait
    \/ Tick
    \/ Cancel
    \/ ProcessExit
    \/ AtEntry /\ ~loop.cancelled /\ SyncListFails
    \/ AtEntry /\ ~loop.cancelled /\ SyncListClusterInfo
    \/ Running /\ ~loop.cancelled /\ SyncDiscoverServices
    \/ Running /\ ~loop.cancelled /\ SyncFilterServices
    \/ Running /\ ~loop.cancelled /\ SyncServicesToLocalCluster
    \/ Running /\ ~loop.cancelled /\ SyncLocalServicesFail
    \/ Running /\ ~loop.cancelled /\ \E key \in ServiceKeys : SyncService(key)
    \/ AtEntry /\ loop.cancelled /\ CancelledListClusterInfo
    \/ Running /\ loop.cancelled /\ CancelledDiscoverServices
    \/ Running /\ loop.cancelled /\ CancelledLocalServices
    \/ Running /\ loop.cancelled /\ \E key \in ServiceKeys : CancelledSyncService(key)

SpecLoop == InitLoop /\ [][NextLoop]_vars

\* ------------------- SpecOwner: local services deleted and created by users

\* default/web is deleted, default/api created, west cut off; slices whose
\* owner is gone are collected
EnvOwner ==
    \/ DeleteLocalService(WebKey)
    \/ CreateLocalService(ApiKey)
    \/ SetReachable(West)
    \/ \E k \in DOMAIN localSlices : GarbageCollect(k)

NextOwner ==
    \/ SyncListFails
    \/ SyncListClusterInfo
    \/ SyncDiscoverServices
    \/ SyncFilterServices
    \/ SyncServicesToLocalCluster
    \/ SyncLocalServicesFail
    \/ \E key \in ServiceKeys : SyncService(key)
    \/ EnvOwner

SpecOwner == Init /\ [][NextOwner]_vars

\* ------------------------------------- SpecName: the names of managed slices

\* the tokens names are made of
NameTokens == {"web", "svclink"}

namingSize ==
    Len(naming.service1) + Len(naming.cluster1) + Len(naming.service2) + Len(naming.cluster2)

InitName ==
    /\ naming = NoNaming
    /\ listing = <<>> /\ getOut = NoResult
    /\ policy = NoPolicy /\ verdict = NoResult
    /\ loop = NoLoop
    /\ clusterLinks = <<>> /\ localServices = <<>> /\ localSlices = <<>>
    /\ remote = <<>> /\ cfg = <<>> /\ pc = "off"
    /\ clusterInfos = <<>> /\ services = <<>> /\ todo = {}
    /\ last = NoLast /\ envSteps = 0 /\ faults = 0

\* one more token in the name of a service or of a cluster
AddNameToken(field, token) ==
    /\ naming.names = <<>>
    /\ namingSize < MaxTokens
    /\ naming' = [naming EXCEPT ![field] = Append(@, token)]
    /\ UNCHANGED <<sysVars, aggVars, fltVars, loopVars>>

\* updateSliceForCluster names the slice of each of the two pairs
NameSlices ==
    /\ naming.names = <<>>
    /\ naming.service1 # <<>> /\ naming.cluster1 # <<>>
    /\ naming.service2 # <<>> /\ naming.cluster2 # <<>>
    /\ naming' = [naming EXCEPT !.names = << sliceName(naming.service1, naming.cluster1),
                                             sliceName(naming.service2, naming.cluster2) >>]
    /\ UNCHANGED <<sysVars, aggVars, fltVars, loopVars>>

NextName ==
    \/ \E field \in {"service1", "cluster1", "service2", "cluster2"}, token \in NameTokens :
          AddNameToken(field, token)
    \/ NameSlices

SpecName == InitName /\ [][NextName]_vars

\* ------------------------------------------------------ SpecAgg: the inputs

\* the label maps a listed slice of service "web" can carry: a native slice,
\* a slice written by svclink, the cluster label with an empty value, the
\* managed-by marker without the cluster label
LabelChoices ==
    LET base == (ServiceNameLabel :> Web)
    IN  { base @@ (ManagedByLabel :> NativeManagedBy),
          svclinkLabels(Web, West),
          base @@ (ClusterLabel :> <<>>),
          base @@ (ManagedByLabel :> ManagedByValue) }

RECURSIVE countEndpoints(_, _)
countEndpoints(items, i) ==
    IF i > Len(items) THEN 0 ELSE Len(items[i].endpoints) + countEndpoints(items, i + 1)

InitAgg ==
    /\ listing = <<>>
    /\ getOut = NoResult
    /\ policy = NoPolicy /\ verdict = NoResult
    /\ loop = NoLoop
    /\ naming = NoNaming
    /\ clusterLinks = <<>> /\ localServices = <<>> /\ localSlices = <<>>
    /\ remote = <<>> /\ cfg = <<>> /\ pc = "off"
    /\ clusterInfos = <<>> /\ services = <<>> /\ todo = {}
    /\ last = NoLast /\ envSteps = 0 /\ faults = 0

\* the remote cluster has one more slice of the service; the port of the
\* k-th slice (when it has one) is 8080 + k
AddSlice(labels, hasPorts) ==
    /\ getOut = NoResult
    /\ Len(listing) < MaxSlices
    /\ listing' = Append(listing,
                         [ labels |-> labels, endpoints |-> <<>>,
                           ports |-> IF hasPorts THEN HttpPort(8080 + Len(listing) + 1) ELSE <<>> ])
    /\ UNCHANGED <<getOut, sysVars, fltVars, loopVars, nameVars>>

\* the last slice has one more endpoint: the j-th endpoint of the k-th slice
\* has the address 10.0.k.j
AddEndpoint(ready) ==
    /\ getOut = NoResult
    /\ listing # <<>>
    /\ countEndpoints(listing, 1) < MaxEps
    /\ LET k == Len(listing)
       IN  listing' = [listing EXCEPT ![k].endpoints =
                          Append(@, Endpoint(<<k, Len(listing[k].endpoints) + 1>>, ready))]
    /\ UNCHANGED <<getOut, sysVars, fltVars, loopVars, nameVars>>

\* one call of getEndpointsFromCluster whose List succeeds
GetEndpoints ==
    /\ getOut = NoResult
    /\ getOut' = [kind |-> "ok"] @@ getEndpointsFromCluster(listing)
    /\ UNCHANGED <<listing, sysVars, fltVars, loopVars, nameVars>>

NextAgg ==
    \/ \E labels \in LabelChoices, hasPorts \in BOOLEAN : AddSlice(labels, hasPorts)
    \/ \E ready \in ReadyValues : AddEndpoint(ready)
    \/ GetEndpoints

SpecAgg == InitAgg /\ [][NextAgg]_vars

\* ------------------------------------------------------------------ claims

\* the listed slices that carry the cluster label / the managed-by marker
LabelledSlices == { k \in 1..Len(listing) : ClusterLabel \in DOMAIN listing[k].labels }
MarkedSlices ==
    { k \in 1..Len(listing) : /\ ManagedByLabel \in DOMAIN listing[k].labels
                              /\ listing[k].labels[ManagedByLabel] = ManagedByValue }
\* the entries of the k-th listed slice that are in the output
EntriesInOutput(k) ==
    { j \in 1..Len(listing[k].endpoints) :
        \E i \in 1..Len(getOut.endpoints) : getOut.endpoints[i] = listing[k].endpoints[j] }

\* C1 (as stated): no entry of a listed slice carrying the managed-by marker
\* (endpointslice.kubernetes.io/managed-by = svclink.cloudpilot.ai) is in the
\* output of getEndpointsFromCluster, even when the entry is ready.
C1_MarkerSlicesExcluded ==
    getOut.kind = "ok" => \A k \in MarkedSlices : EntriesInOutput(k) = {}

\* C1 (amended): no entry of a listed slice carrying the cluster label
\* cloudpilot.ai/svclink-cluster is in the output, even when the entry is
\* ready; the managed-by marker alone does not exclude a slice.
C1_LabelledSlicesExcluded ==
    getOut.kind = "ok" => \A k \in LabelledSlices : EntriesInOutput(k) = {}

C1_Witness ==
    /\ getOut.kind = "ok"
    /\ \E k \in LabelledSlices : \E j \in 1..Len(listing[k].endpoints) :
            listing[k].endpoints[j].ready = "true"
    /\ \E k \in MarkedSlices \ LabelledSlices : EntriesInOutput(k) # {}

\* C2: a slice with the cluster label (any value) contributes neither
\* endpoints nor ports: every returned endpoint is an entry of a native
\* slice, the returned ports are those of a native slice, and when every
\* listed slice carries the label the result has no endpoint and no port.
C2_SkipsSyncedSlices ==
    getOut.kind = "ok" =>
        /\ \A i \in 1..Len(getOut.endpoints) :
              \E k \in (1..Len(listing)) \ LabelledSlices : \E j \in 1..Len(listing[k].endpoints) :
                  getOut.endpoints[i] = listing[k].endpoints[j]
        /\ getOut.ports # <<>> =>
              \E k \in (1..Len(listing)) \ LabelledSlices : getOut.ports = listing[k].ports
        /\ LabelledSlices = 1..Len(listing) => getOut.endpoints = <<>> /\ getOut.ports = <<>>

C2_Witness ==
    /\ getOut.kind = "ok"
    /\ Len(listing) = 2
    /\ LabelledSlices = {1}
    /\ listing[1].ports # <<>> /\ listing[2].ports # <<>>
    /\ listing[1].labels[ClusterLabel] = <<>>
    /\ listing[1].endpoints # <<>> /\ listing[1].endpoints[1].ready = "true"
    /\ Len(getOut.endpoints) = 1

\* C3: an entry of a native slice is in the output exactly when its
\* readiness is explicitly true; once per entry, in listing order.
C3_ReadinessFiltering ==
    getOut.kind = "ok" =>
        /\ \A k \in (1..Len(listing)) \ LabelledSlices : \A j \in 1..Len(listing[k].endpoints) :
              (j \in EntriesInOutput(k)) <=> (listing[k].endpoints[j].ready = "true")
        /\ \A i \in 1..Len(getOut.endpoints) : getOut.endpoints[i].ready = "true"
        /\ \A i, i2 \in 1..Len(getOut.endpoints) :
              i < i2 => getOut.endpoints[i].addresses[1][1] < getOut.endpoints[i2].addresses[1][1]
                        \/ (getOut.endpoints[i].addresses[1][1] = getOut.endpoints[i2].addresses[1][1]
                            /\ getOut.endpoints[i].addresses[1][2] < getOut.endpoints[i2].addresses[1][2])

C3_Witness ==
    /\ getOut.kind = "ok"
    /\ Len(listing) = 2 /\ LabelledSlices = {}
    /\ listing[1].endpoints # <<>> /\ listing[1].endpoints[1].ready = "nil"
    /\ listing[2].endpoints # <<>> /\ listing[2].endpoints[1].ready = "true"
    /\ Len(getOut.endpoints) = 1

\* ---------------------------------------------- claims about the sync cycle

Reconciled == last.op = "syncService"
\* the clusters of the aggregation result handed to the reconcile
GroupClusters == { last.groups[i].ClusterName : i \in DOMAIN last.groups }
CallsOf(verb) == { i \in DOMAIN last.calls : last.calls[i].verb = verb }
\* no call of the reconcile failed
CleanReconcile ==
    /\ last.failed = {} /\ ~last.cleanupErr
    /\ \A i \in DOMAIN last.calls : last.calls[i].ok
\* the ready entries of the native slices of a service in the remote cluster c
ReadyNative(c, key) ==
    { <<k, j>> \in (DOMAIN remote[c].slices) \X (1..4) :
        /\ j \in DOMAIN remote[c].slices[k].endpoints
        /\ remote[c].slices[k].namespace = key[1]
        /\ remote[c].slices[k].labels[ServiceNameLabel] = key[2]
        /\ ClusterLabel \notin DOMAIN remote[c].slices[k].labels
        /\ remote[c].slices[k].endpoints[j].ready = "true" }
\* the managed slices of a service in a store: labelled with it and a cluster
ManagedOf(slices, key) ==
    { k \in DOMAIN slices : /\ k[1] = key[1]
                            /\ slices[k].labels[ServiceNameLabel] = key[2]
                            /\ ClusterLabel \in DOMAIN slices[k].labels }

\* C4: AggregateEndpoints returns at most one entry per contributing cluster,
\* every entry has at least one endpoint, and a contributing cluster with no
\* ready native endpoint has no entry.
C4_NoEmptyEntry ==
    Reconciled =>
        /\ \A i, j \in DOMAIN last.groups :
              last.groups[i].ClusterName = last.groups[j].ClusterName => i = j
        /\ GroupClusters \subseteq Range(last.clusters)
        /\ \A i \in DOMAIN last.groups : Len(last.groups[i].Endpoints) > 0
        /\ \A c \in Range(last.clusters) : ReadyNative(c, last.svc) = {} => c \notin GroupClusters

C4_Witness ==
    /\ Reconciled
    /\ Range(last.clusters) = {East, West}
    /\ remote[West].up /\ West \in DOMAIN clusterInfos
    /\ ReadyNative(West, last.svc) = {}
    /\ GroupClusters = {East}

\* C5 (as stated): after a reconcile of service S with groups for the cluster
\* set P in which every delete call succeeded, no managed slice of S with a
\* cluster label outside P remains and no slice with a cluster label in P
\* was deleted.
C5_OrphansRemoved ==
    (Reconciled /\ \A i \in CallsOf("delete") : last.calls[i].ok) =>
        /\ \A k \in ManagedOf(localSlices, last.svc) :
              localSlices[k].labels[ClusterLabel] \in GroupClusters
        /\ \A k \in ManagedOf(last.before, last.svc) :
              last.before[k].labels[ClusterLabel] \in GroupClusters => k \in DOMAIN localSlices

\* C5 (amended): the same when the List of the cleanup succeeded as well.
C5_OrphansRemovedWhenListed ==
    (Reconciled /\ ~last.listFailed /\ \A i \in CallsOf("delete") : last.calls[i].ok) =>
        /\ \A k \in ManagedOf(localSlices, last.svc) :
              localSlices[k].labels[ClusterLabel] \in GroupClusters
        /\ \A k \in ManagedOf(last.before, last.svc) :
              last.before[k].labels[ClusterLabel] \in GroupClusters => k \in DOMAIN localSlices

C5_Witness ==
    /\ Reconciled /\ ~last.listFailed
    /\ GroupClusters = {East}
    /\ \E i \in CallsOf("delete") : last.calls[i].ok /\ last.calls[i].cluster = West
    /\ \E k \in ManagedOf(last.before, last.svc) : last.before[k].labels[ClusterLabel] = East

\* the managed slice of web for a cluster, named per the naming contract
ManagedWebKey(c) == <<Default, <<"web", "svclink">> \o c>>
\* the cluster was listed with enabled=false by the cycle in progress
ListedDisabled(c) == c \in DOMAIN clusterInfos /\ ~clusterInfos[c].Enabled

\* C6: web was synchronized from {x, y} (both managed slices exist); when y
\* is disabled or unreachable while x keeps contributing, a reconcile without
\* failures deletes exactly the slice of (web, y) and leaves that of (web, x).
C6_OrphanConvergence ==
    \A x, y \in Clusters :
        ( /\ x # y
          /\ Reconciled /\ last.svc = WebKey /\ CleanReconcile
          /\ ManagedWebKey(x) \in DOMAIN last.before
          /\ ManagedWebKey(y) \in DOMAIN last.before
          /\ x \in GroupClusters
          /\ (ListedDisabled(y) \/ ~remote[y].up) )
        => /\ ManagedWebKey(y) \notin DOMAIN localSlices
           /\ ManagedWebKey(x) \in DOMAIN localSlices
           /\ { last.calls[i].key : i \in CallsOf("delete") } = {ManagedWebKey(y)}

\* the local store before the reconcile is as a reconcile of the same groups
\* leaves it: a slice per group with its endpoints, ports and labels, and no
\* managed slice of another cluster
StoreSettled ==
    /\ Reconciled /\ last.groups # <<>>
    /\ \A i \in DOMAIN last.groups :
          LET k == <<last.svc[1], last.svc[2] \o <<"svclink">> \o last.groups[i].ClusterName>>
          IN  /\ k \in DOMAIN last.before
              /\ last.before[k].endpoints = last.groups[i].Endpoints
              /\ last.before[k].ports = last.groups[i].Ports
              /\ last.before[k].labels[ClusterLabel] = last.groups[i].ClusterName
              /\ last.before[k].labels[ManagedByLabel] = ManagedByValue
    /\ \A k \in ManagedOf(last.before, last.svc) :
          last.before[k].labels[ClusterLabel] \in GroupClusters

\* C7 (as stated): a second reconcile of a service with unchanged groups
\* issues no create, update or delete call.
C7_SecondRunNoCalls == StoreSettled => last.calls = <<>>

\* C7 (amended): a second reconcile of a service with unchanged groups issues
\* no create and no delete call and leaves the local store as it was; it
\* issues one update call for each group whose Service and slice it could
\* read.
C7_SecondRunOnlyUpdates ==
    StoreSettled =>
        /\ localSlices = last.before
        /\ CallsOf("create") = {} /\ CallsOf("delete") = {}
        /\ \A i \in DOMAIN last.groups :
              LET c == last.groups[i].ClusterName
                  mine == { n \in DOMAIN last.calls : last.calls[n].cluster = c }
              IN  /\ Cardinality(mine) <= 1
                  /\ (c \notin last.failed => Cardinality(mine) = 1)

C7_Witness ==
    /\ StoreSettled /\ CleanReconcile
    /\ Len(last.groups) = 2
    /\ Len(last.calls) = 2
    /\ \A n \in DOMAIN last.calls : last.calls[n].verb = "update"

\* the addresses held by a sequence of endpoints
AddressesOf(endpoints) == { endpoints[i].addresses[1] : i \in DOMAIN endpoints }
\* the addresses of east's ready native endpoints of web
EastReadyAddresses ==
    { remote[East].slices[e[1]].endpoints[e[2]].addresses[1] : e \in ReadyNative(East, WebKey) }

\* C8: when east contributes default/web with ready native endpoints, a
\* reconcile without failures leaves the slice web-svclink-east holding
\* exactly the ready addresses and owned by the local service default/web;
\* it is created by one create call when it did not exist (the only slice
\* created when east is the only contributor) and otherwise updated under the
\* same name by one update call, its owner reference untouched.
C8_CreateThenUpdate ==
    ( /\ Reconciled /\ last.svc = WebKey /\ CleanReconcile
      /\ East \in Range(last.clusters) /\ East \in DOMAIN clusterInfos /\ remote[East].up
      /\ EastReadyAddresses # {} )
    => LET k == <<Default, <<"web", "svclink", "east">>>>
           mine == { n \in DOMAIN last.calls : last.calls[n].cluster = East }
       IN  /\ k \in DOMAIN localSlices
           /\ AddressesOf(localSlices[k].endpoints) = EastReadyAddresses
           /\ Len(localSlices[k].endpoints) = Cardinality(EastReadyAddresses)
           /\ localSlices[k].ownerReferences =
                 <<[kind |-> "Service", name |-> Web, uid |-> localServices[WebKey]]>>
           /\ Cardinality(mine) = 1
           /\ \A n \in mine : last.calls[n].key = k
           /\ IF k \in DOMAIN last.before
              THEN /\ \A n \in mine : last.calls[n].verb = "update"
                   /\ localSlices[k].ownerReferences = last.before[k].ownerReferences
              ELSE /\ \A n \in mine : last.calls[n].verb = "create"
                   /\ GroupClusters = {East} => Cardinality(CallsOf("create")) = 1

\* both addresses were mirrored, one is left after the update
C8_Witness ==
    /\ Reconciled /\ last.svc = WebKey /\ CleanReconcile
    /\ ManagedWebKey(East) \in DOMAIN last.before
    /\ AddressesOf(last.before[ManagedWebKey(East)].endpoints) = {<<1, 1>>, <<1, 2>>}
    /\ AddressesOf(localSlices[ManagedWebKey(East)].endpoints) = {<<1, 1>>}
    /\ \E n \in CallsOf("update") : last.calls[n].key = ManagedWebKey(East)

\* C9: when a cycle lists west as disabled and west's managed slice of web
\* exists, the reconcile of web in that cycle (no call failing) deletes it.
C9_DisabledSliceDeleted ==
    ( /\ Reconciled /\ last.svc = WebKey /\ CleanReconcile
      /\ ListedDisabled(West)
      /\ ManagedWebKey(West) \in DOMAIN last.before )
    => ManagedWebKey(West) \notin DOMAIN localSlices

\* C10: a descriptor with enabled=false is not a key of the map ListClusterInfo
\* returns and its status is not written; no service is discovered from it
\* and no endpoints are aggregated from it.
C10_DisabledNotSynchronized ==
    /\ last.op = "ListClusterInfo" =>
          \A c \in DOMAIN clusterLinks :
              ~clusterLinks[c].spec.enabled => c \notin DOMAIN clusterInfos /\ c \notin last.written
    /\ last.op = "DiscoverServices" =>
          /\ \A c \in last.written : ~ListedDisabled(c)
          /\ \A key \in DOMAIN services : \A c \in Range(services[key].Clusters) : ~ListedDisabled(c)
    /\ Reconciled => \A c \in GroupClusters : ~ListedDisabled(c)

\* -------------------------------- claims about removed and cut off clusters

\* a sync cycle has run to its end
CycleCompleted ==
    /\ pc = "idle"
    /\ last.op \in {"syncService", "filterServices", "SyncServicesToLocalCluster"}
\* the slices of a store that carry the cluster label of c
SlicesOfCluster(slices, c) ==
    { k \in DOMAIN slices : /\ ClusterLabel \in DOMAIN slices[k].labels
                            /\ slices[k].labels[ClusterLabel] = c }

\* C11: when a sync cycle that listed the ClusterLinks after c was deleted has
\* completed, no call having failed, no slice with the cluster label of c
\* remains in the local cluster.
C11_DeletedClusterCleanedUp ==
    \A c \in Clusters :
        ( /\ CycleCompleted /\ faults = 0
          /\ c \notin DOMAIN clusterLinks /\ c \notin DOMAIN clusterInfos )
        => SlicesOfCluster(localSlices, c) = {}

Applied == verdict.kind = "ok"
UserExcludedNS == { policy.spec.excludedNamespaces[i] : i \in DOMAIN policy.spec.excludedNamespaces }
UserIncludedNS == { policy.spec.includedNamespaces[i] : i \in DOMAIN policy.spec.includedNamespaces }

\* C13: ShouldExcludeNamespace(ns) is true exactly when ns is in the excluded
\* set (the user's list and kube-system) or the inclusion list is not empty
\* and lacks ns; so a namespace in both lists is excluded, and with an
\* inclusion list an unlisted namespace, the empty string too, is excluded.
C13_ShouldExcludeNamespace ==
    Applied =>
        /\ \A ns \in NsUniverse :
              verdict.namespace[ns] <=>
                  \/ ns \in UserExcludedNS \cup {"kube-system"}
                  \/ (UserIncludedNS # {} /\ ns \notin UserIncludedNS)
        /\ \A ns \in UserExcludedNS \cap UserIncludedNS : verdict.namespace[ns]
        /\ UserIncludedNS # {} => \A ns \in NsUniverse \ UserIncludedNS : verdict.namespace[ns]

\* includedNamespaces = [default, prod], excludedNamespaces = [default]
C13_Witness ==
    /\ Applied
    /\ UserIncludedNS = {Default, Prod} /\ UserExcludedNS = {Default}
    /\ verdict.namespace[Default] /\ ~verdict.namespace[Prod] /\ verdict.namespace[""]

UserExcludedSvcNames == { policy.spec.excludedServiceNames[i] : i \in DOMAIN policy.spec.excludedServiceNames }
UserExcludedSvc == { policy.spec.excludedServices[i] : i \in DOMAIN policy.spec.excludedServices }

\* C14: the excluded-namespace set is the user's list with kube-system, the
\* excluded-service-name set the user's list with "kubernetes", each held
\* once; kube-system is excluded even when includedNamespaces lists it, a
\* service named kubernetes is excluded in every namespace, and no service of
\* kube-system and no service named kubernetes is discovered.
C14_DefaultExclusion ==
    Applied =>
        /\ verdict.excludedNS = UserExcludedNS \cup {"kube-system"}
        /\ Cardinality(verdict.excludedNS) =
              Cardinality(UserExcludedNS) + (IF "kube-system" \in UserExcludedNS THEN 0 ELSE 1)
        /\ verdict.excludedSvcName = UserExcludedSvcNames \cup {<<"kubernetes">>}
        /\ Cardinality(verdict.excludedSvcName) =
              Cardinality(UserExcludedSvcNames) + (IF <<"kubernetes">> \in UserExcludedSvcNames THEN 0 ELSE 1)
        /\ verdict.namespace["kube-system"]
        /\ \A ns \in NsUniverse : verdict.service[<<ns, <<"kubernetes">>>>]
        /\ \A key \in DOMAIN verdict.discovered :
              key[1] # "kube-system" /\ key[2] # <<"kubernetes">>
        /\ \A i \in DOMAIN verdict.listed : verdict.listed[i] # "kube-system"

\* kube-system is in includedNamespaces and in no exclusion list
C14_Witness ==
    /\ Applied
    /\ UserIncludedNS = {KubeSystem, Default}
    /\ UserExcludedNS = {} /\ UserExcludedSvcNames = {}
    /\ verdict.namespace[KubeSystem]
    /\ <<Default, Web>> \in DOMAIN verdict.discovered
    /\ <<KubeSystem, Web>> \notin DOMAIN verdict.discovered

\* C15: ShouldExcludeService(ns, name) is true exactly when ns/name is in
\* excludedServices or name is in the excluded-service-name set (the user's
\* list and "kubernetes"); the match is exact, so an entry ns/name does not
\* exclude the same name in another namespace, nor a name differing by case.
C15_ShouldExcludeService ==
    Applied =>
        /\ \A k \in SvcUniverse :
              verdict.service[k] <=>
                  \/ k \in UserExcludedSvc
                  \/ k[2] \in UserExcludedSvcNames \cup {<<"kubernetes">>}
        /\ \A k \in UserExcludedSvc : \A ns \in NsUniverse :
              ( /\ <<ns, k[2]>> \notin UserExcludedSvc
                /\ k[2] \notin UserExcludedSvcNames /\ k[2] # <<"kubernetes">> )
              => ~verdict.service[<<ns, k[2]>>]
        /\ (Web \in UserExcludedSvcNames /\ <<"Web">> \notin UserExcludedSvcNames)
              => \A ns \in NsUniverse :
                    verdict.service[<<ns, <<"Web">>>>] <=> <<ns, <<"Web">>>> \in UserExcludedSvc

\* excludedServices = [default/web]: prod/web and default/Web are kept
C15_Witness ==
    /\ Applied
    /\ UserExcludedSvc = {<<Default, Web>>} /\ UserExcludedSvcNames = {}
    /\ verdict.service[<<Default, Web>>]
    /\ ~verdict.service[<<Prod, Web>>]
    /\ ~verdict.service[<<Default, WebUpper>>]
    /\ <<Prod, Web>> \in DOMAIN verdict.discovered
    /\ <<Default, Web>> \notin DOMAIN verdict.discovered

GlobalNS == { policy.global[i] : i \in DOMAIN policy.global }
\* the cluster's own policy excludes the namespace
PolicyExcludes(ns) ==
    \/ ns \in UserExcludedNS \cup {"kube-system"}
    \/ (UserIncludedNS # {} /\ ns \notin UserIncludedNS)
ListedNS == { verdict.listed[i] : i \in DOMAIN verdict.listed }
DiscoveredNS == { key[1] : key \in DOMAIN verdict.discovered }

C17_GlobalListOverridesPolicy ==
    (Applied /\ GlobalNS # {}) =>
        \A ns \in GlobalNS : ns \in ListedNS /\ <<ns, Web>> \in DOMAIN verdict.discovered

\* ----------------------------------------------- claims about the registry

Listed == last.op = "ListClusterInfo"
BadKubeconfig(c) == clusterLinks[c].spec.kubeconfig \in {"badBase64", "badConfig"}

\* C18: after ListClusterInfo a descriptor whose kubeconfig cannot be decoded
\* or parsed has its status written with connected=false and an error
\* message and is not in the map; every other descriptor is in the map with
\* its status written, and the cycle goes on to the discovery.
C18_RegistryFailureIsolation ==
    Listed =>
        /\ pc = "discover"
        /\ last.written = DOMAIN clusterLinks
        /\ \A c \in DOMAIN clusterLinks :
              IF BadKubeconfig(c)
              THEN /\ ~clusterLinks[c].status.connected
                   /\ clusterLinks[c].status.error # ""
                   /\ c \notin DOMAIN clusterInfos
              ELSE /\ c \in DOMAIN clusterInfos
                   /\ clusterLinks[c].status.connected
                   /\ clusterLinks[c].status.error = ""

C18_Witness ==
    /\ Listed
    /\ clusterLinks[East].spec.kubeconfig = "badBase64"
    /\ clusterLinks[East].status.error = "Failed to decode kubeconfig"
    /\ DOMAIN clusterInfos = {West}
    /\ clusterLinks[West].status.connected

\* C19: the map ListClusterInfo returns holds only clusters whose version
\* probe succeeded: a descriptor whose cluster does not answer gets the status
\* connected=false with an error and is not in the map.
C19_OnlyProbedClustersListed ==
    Listed =>
        \A c \in DOMAIN clusterLinks :
            ~remote[c].up =>
                /\ c \notin DOMAIN clusterInfos
                /\ ~clusterLinks[c].status.connected
                /\ clusterLinks[c].status.error # ""

\* the step of a cycle that is ListClusterInfo
ListStep == pc = "idle" /\ pc' = "discover"
GoodKubeconfig(c) == clusterLinks[c].spec.kubeconfig = "ok"

Discovered == last.op = "DiscoverServices"
\* the records of the services map that name c as a contributor, or hold
\* its copy of the service
RecordsOf(c) ==
    { key \in DOMAIN services : c \in Range(services[key].Clusters) \/ services[key].Service = c }

\* C21: after DiscoverServices no record of the map names a cluster whose
\* discovery failed (its namespace List or one of its Services Lists) as a
\* contributor or holds its copy of the service, and the cycle goes on to
\* the next phase.
C21_FailedClusterOmitted ==
    Discovered =>
        /\ pc = "filter"
        /\ \A c \in last.discoverFailed : RecordsOf(c) = {}

\* the clusters of the map whose descriptor is in the store as it was listed
Unedited ==
    { c \in DOMAIN clusterInfos :
        c \in DOMAIN clusterLinks /\ clusterLinks[c].rv = clusterInfos[c].ClusterLink.rv }

C23_ListFailureAbortsCycle ==
    [][ last'.op = "ListClusterInfoFailed" =>
          /\ pc = "idle" /\ pc' = "idle"
          /\ last'.written = {} /\ last'.calls = <<>>
          /\ UNCHANGED <<clusterLinks, localServices, localSlices, clusterInfos, services, todo>> ]_vars

\* an earlier cycle had connected both clusters and mirrored web
C23_Witness ==
    /\ last.op = "ListClusterInfoFailed"
    /\ pc = "idle"
    /\ clusterLinks[East].status.connected /\ clusterLinks[West].status.connected
    /\ ManagedWebKey(East) \in DOMAIN localSlices
    /\ ManagedWebKey(West) \in DOMAIN localSlices

\* C24: an error while the local services are listed, or while a missing
\* local service is created, does not stop the cycle: the range loop over the
\* discovered services is still entered, every one of them to be reconciled.
C24_LocalServiceErrorScoped ==
    (last.op = "localServicesFailed" /\ DOMAIN services # {}) =>
        /\ pc = "sync"
        /\ todo # {}

\* ------------------------------------------------ claims about the sync loop

\* C25: at every moment at most one call of sync is in progress; a call of
\* sync is made only when every earlier call has returned, the first at once
\* when the loop starts and each later one a full interval after the return
\* of the one before, however long that one took.
C25_SingleFlight ==
    /\ [](loop.cycles - loop.returned \in {0, 1})
    /\ [][ loop'.cycles # loop.cycles =>
              /\ loop'.cycles = loop.cycles + 1
              /\ loop.returned = loop.cycles
              /\ pc = "idle"
              /\ IF loop.cycles = 0
                 THEN loop.timer = 0 /\ loop.took = 0
                 ELSE loop.timer >= SyncInterval ]_vars

\* the first cycle took longer than the interval; the second is under way
C25_Witness ==
    /\ loop.cycles = 2 /\ loop.returned = 1
    /\ loop.prevTook > SyncInterval
    /\ pc = "discover"

\* C26: once ctx is cancelled the running cycle starts no further phase (its
\* place in sync changes only by returning, and no service of the range loop
\* is reconciled) and no new call of sync is made.
C26_CancellationObserved ==
    [][ loop.cancelled =>
          /\ loop'.cycles = loop.cycles
          /\ pc' \in {pc, "idle"}
          /\ todo' = todo ]_vars

\* ------------------------------------------------ claims about the reconcile

\* the calls of the last reconcile made for the cluster c
CallsFor(c) == { n \in DOMAIN last.calls : last.calls[n].cluster = c }
\* the name of the slice of the reconciled service for the cluster c
SliceKeyFor(c) == <<last.svc[1], last.svc[2] \o <<"svclink">> \o c>>
ThreeLabels(labels, serviceName, c) ==
    /\ labels["kubernetes.io/service-name"] = serviceName
    /\ labels["cloudpilot.ai/svclink-cluster"] = c
    /\ labels["endpointslice.kubernetes.io/managed-by"] = "svclink.cloudpilot.ai"

\* C27: for every group of a reconcile whose update returned no error (the
\* local parent service exists), one call was made for the cluster: a create
\* when no slice of that name existed, leaving a slice with the three labels
\* and nothing else, owned by the local service (its name and UID); an
\* update when one existed, leaving its owner references and other labels
\* as they were.  Either way the stored slice has the group's endpoints and
\* ports and the three labels.
C27_CreateOrOverwrite ==
    Reconciled =>
        \A i \in DOMAIN last.groups :
            LET c == last.groups[i].ClusterName
                k == SliceKeyFor(c)
            IN  c \notin last.failed =>
                  /\ localServices[last.svc] # 0
                  /\ Cardinality(CallsFor(c)) = 1
                  /\ \A n \in CallsFor(c) : last.calls[n].key = k /\ last.calls[n].ok
                  /\ k \in DOMAIN localSlices
                  /\ localSlices[k].endpoints = last.groups[i].Endpoints
                  /\ localSlices[k].ports = last.groups[i].Ports
                  /\ ThreeLabels(localSlices[k].labels, last.svc[2], c)
                  /\ IF k \in DOMAIN last.before
                     THEN /\ \A n \in CallsFor(c) : last.calls[n].verb = "update"
                          /\ localSlices[k].ownerReferences = last.before[k].ownerReferences
                          /\ DOMAIN localSlices[k].labels = DOMAIN last.before[k].labels
                     ELSE /\ \A n \in CallsFor(c) : last.calls[n].verb = "create"
                          /\ Cardinality(DOMAIN localSlices[k].labels) = 3
                          /\ localSlices[k].ownerReferences =
                                <<[kind |-> "Service", name |-> last.svc[2],
                                   uid |-> localServices[last.svc]]>>

\* one reconcile updates east's slice of web and creates west's
C27_Witness ==
    /\ Reconciled /\ last.svc = WebKey /\ CleanReconcile
    /\ ManagedWebKey(East) \in DOMAIN last.before
    /\ ManagedWebKey(West) \notin DOMAIN last.before
    /\ last.before[ManagedWebKey(East)].endpoints # localSlices[ManagedWebKey(East)].endpoints
    /\ \E n \in CallsOf("update") : last.calls[n].cluster = East
    /\ \E n \in CallsOf("create") : last.calls[n].cluster = West

\* C28: in a reconcile of a service whose local Service is absent, the update
\* of every group's cluster returns an error without a create or update call,
\* the slice of each being left as it was (or absent); every cluster of the
\* groups is attempted, and the cleanup still runs: when its List and its
\* Deletes succeed, the slices of the service for clusters outside the groups
\* are deleted.
C28_MissingParent ==
    (Reconciled /\ localServices[last.svc] = 0) =>
        /\ last.failed = GroupClusters
        /\ CallsOf("create") = {} /\ CallsOf("update") = {}
        /\ \A c \in GroupClusters :
              IF SliceKeyFor(c) \in DOMAIN last.before
              THEN /\ SliceKeyFor(c) \in DOMAIN localSlices
                   /\ localSlices[SliceKeyFor(c)] = last.before[SliceKeyFor(c)]
              ELSE SliceKeyFor(c) \notin DOMAIN localSlices
        /\ (~last.listFailed /\ \A n \in CallsOf("delete") : last.calls[n].ok) =>
              \A k \in ManagedOf(last.before, last.svc) :
                  last.before[k].labels[ClusterLabel] \notin GroupClusters =>
                      /\ k \notin DOMAIN localSlices
                      /\ \E n \in CallsOf("delete") : last.calls[n].key = k

\* default/web was deleted and west cut off: east's update fails, west's
\* slice is deleted by the cleanup
C28_Witness ==
    /\ Reconciled /\ last.svc = WebKey /\ localServices[WebKey] = 0
    /\ GroupClusters = {East} /\ last.failed = {East}
    /\ ManagedWebKey(East) \in DOMAIN localSlices
    /\ ManagedWebKey(West) \in DOMAIN last.before
    /\ ManagedWebKey(West) \notin DOMAIN localSlices

\* a create, update or delete call of the last reconcile failed
WriteFailed == \E n \in DOMAIN last.calls : ~last.calls[n].ok

\* C29: a reconcile returns an error exactly when one of its create, update
\* or delete calls failed, and sync then has the service in the error
\* aggregate of the cycle.
C29_FailuresReturned ==
    Reconciled =>
        /\ (last.ret = "nil") <=> ~WriteFailed
        /\ WriteFailed => last.svc \in last.errs

\* ------------------------------------------- claims about the local services

\* C30: with SyncServicesToLocalCluster false, the services the range loop of
\* a cycle goes over are the discovered ones that were local Services when
\* the local Services were listed, their records unchanged; every reconcile
\* of the cycle is for one of them that is still to be visited, and its
\* create calls are for slices of that service, whose local Service exists.
C30_OnlyLocalServicesReconciled ==
    /\ [][ last'.op = "filterServices" =>
              /\ ~cfg.SyncServicesToLocalCluster
              /\ DOMAIN services' = { k \in DOMAIN services : localServices[k] # 0 }
              /\ \A k \in DOMAIN services' : services'[k] = services[k]
              /\ todo' = DOMAIN services' ]_vars
    /\ [][ (~cfg.SyncServicesToLocalCluster /\ last'.op = "syncService") =>
              /\ last'.svc \in todo /\ todo \subseteq DOMAIN services
              /\ todo' = todo \ {last'.svc} /\ services' = services
              /\ \A n \in DOMAIN last'.calls :
                    last'.calls[n].verb = "create" =>
                        /\ localServices[last'.svc] # 0
                        /\ last'.calls[n].key =
                              <<last'.svc[1], last'.svc[2] \o <<"svclink">> \o last'.calls[n].cluster>> ]_vars

\* default/api, served by west, became a local Service after the listing: the
\* cycle has ended without a slice for it
C30_Witness ==
    /\ ~cfg.SyncServicesToLocalCluster
    /\ Reconciled /\ pc = "idle"
    /\ localServices[ApiKey] # 0
    /\ ApiKey \notin DOMAIN services
    /\ West \in DOMAIN clusterInfos /\ remote[West].up
    /\ <<Default, <<"api", "svclink", "west">>>> \notin DOMAIN localSlices
    /\ ManagedWebKey(West) \in DOMAIN localSlices

\* ------------------------------------------- claims about what is written

\* C31: a step of the controller (any step that is not a change made by a
\* user, a remote cluster or the garbage collector) leaves every remote
\* cluster as it was, creates and deletes no ClusterLink and leaves the spec
\* of every ClusterLink, and the count of the edits made to it, as they were:
\* of a ClusterLink only the status is written.
C31_WriteFootprint ==
    [][last'.op # "env" =>
          /\ remote' = remote
          /\ DOMAIN clusterLinks' = DOMAIN clusterLinks
          /\ \A c \in DOMAIN clusterLinks :
                /\ clusterLinks'[c].spec = clusterLinks[c].spec
                /\ clusterLinks'[c].rv = clusterLinks[c].rv]_vars

\* a cycle has written the status of east, whose kubeconfig is bad, and of
\* west, and has created a slice in the local cluster
C31_Witness ==
    /\ Reconciled
    /\ \E n \in CallsOf("create") : last.calls[n].ok
    /\ decodeFails(clusterLinks[East])
    /\ clusterLinks[East].status.error # ""
    /\ clusterLinks[West].status.connected

\* ------------------------------------------ claims about the discovered map

\* the cluster c of the map of ListClusterInfo has the service key in a
\* namespace that passes the global and its own namespace filters, and the
\* service passes its service filter
Offers(c, key) ==
    LET spec == clusterInfos[c].ClusterLink.spec
        global == Range(cfg.IncludedNamespaces)
    IN  /\ key \in Range(remote[c].services)
        /\ key[1] \in Range(remote[c].namespaces)
        /\ ~(global # {} /\ key[1] \notin global)
        /\ ~ShouldExcludeNamespace(key[1], ToExcludedNamespaceSet(spec), ToIncludedNamespaceSet(spec))
        /\ ~ShouldExcludeService(key[1], key[2], ToExcludedServiceSet(spec),
                                 ToExcludedServiceNameSet(spec))

\* C32: the map DiscoverServices returns is keyed by namespace and name; a
\* cluster whose discovery succeeded is a contributor of a record exactly
\* when it offers the service; no cluster is twice in a contributor list; and
\* every contributor of every record is a cluster of the current registry
\* map that has the service now (nothing is carried over from a cycle
\* before).
C32_UnionOfClusters ==
    last.op = "DiscoverServices" =>
        /\ \A key \in DOMAIN services :
              /\ key = <<services[key].Namespace, services[key].Name>>
              /\ services[key].Clusters # <<>>
              /\ \A i, j \in DOMAIN services[key].Clusters :
                    services[key].Clusters[i] = services[key].Clusters[j] => i = j
              /\ \A c \in Range(services[key].Clusters) :
                    c \in DOMAIN clusterInfos /\ key \in Range(remote[c].services)
        /\ \A c \in (DOMAIN clusterInfos) \ last.discoverFailed :
              \A key \in DiscServiceKeys :
                  (key \in DOMAIN services /\ c \in Range(services[key].Clusters)) <=> Offers(c, key)

\* both discoveries succeeded: prod/web comes from both clusters, default/web
\* from west only (east has it and excludes it), and default/api is not in
\* the map once west's service is deleted
C32_Witness ==
    /\ last.op = "DiscoverServices" /\ last.discoverFailed = {}
    /\ DOMAIN clusterInfos = {East, West}
    /\ ProdWebKey \in DOMAIN services /\ WebKey \in DOMAIN services
    /\ Range(services[ProdWebKey].Clusters) = {East, West}
    /\ WebKey \in Range(remote[East].services)
    /\ services[WebKey].Clusters = <<West>>
    /\ ApiKey \notin Range(remote[West].services)
    /\ ApiKey \notin DOMAIN services

\* ------------------------------------- claims about the slices that are kept

\* the labels updateSliceForCluster sets
SvclinkLabelKeys == {ServiceNameLabel, ClusterLabel, ManagedByLabel}
\* the successful update calls of the reconcile
UpdatesDone == { n \in CallsOf("update") : last.calls[n].ok }

\* C33: after a successful update call the slice is in the store under the
\* same namespace and name, with the endpoints and ports of its group and the
\* three svclink labels; its owner references, its address type and its
\* other labels are those it had before, whatever the UID of the local
\* Service is now.
C33_UpdateFrame ==
    Reconciled =>
        \A n \in UpdatesDone :
            LET k == last.calls[n].key
                c == last.calls[n].cluster
            IN  /\ k \in DOMAIN last.before /\ k \in DOMAIN localSlices
                /\ localSlices[k].ownerReferences = last.before[k].ownerReferences
                /\ localSlices[k].addressType = last.before[k].addressType
                /\ DOMAIN localSlices[k].labels = DOMAIN last.before[k].labels \cup SvclinkLabelKeys
                /\ \A l \in DOMAIN last.before[k].labels \ SvclinkLabelKeys :
                      localSlices[k].labels[l] = last.before[k].labels[l]
                /\ ThreeLabels(localSlices[k].labels, last.svc[2], c)
                /\ \E i \in DOMAIN last.groups :
                      /\ last.groups[i].ClusterName = c
                      /\ localSlices[k].endpoints = last.groups[i].Endpoints
                      /\ localSlices[k].ports = last.groups[i].Ports

\* the slice of (web, east) carries the user's label and an owner reference
\* to the Service default/web that was replaced since; the update changes its
\* endpoints and keeps both
C33_Witness ==
    /\ Reconciled /\ last.svc = WebKey
    /\ \E n \in UpdatesDone : last.calls[n].key = ManagedWebKey(East)
    /\ ManagedWebKey(East) \in DOMAIN localSlices
    /\ localSlices[ManagedWebKey(East)].ownerReferences[1].uid # localServices[WebKey]
    /\ TeamLabel \in DOMAIN localSlices[ManagedWebKey(East)].labels

\* ------------------------------------------------ claims about the ports

\* the listed native slices that have ports
NativeWithPorts == { k \in (1..Len(listing)) \ LabelledSlices : listing[k].ports # <<>> }

\* C34: the ports returned are those of the first listed native slice that
\* has ports, whether or not an endpoint of that slice is ready, and there
\* are none when no native slice has ports.
C34_FirstPortsWin ==
    getOut.kind = "ok" =>
        IF NativeWithPorts = {} THEN getOut.ports = <<>>
        ELSE \E k \in NativeWithPorts :
                /\ \A k2 \in NativeWithPorts : k <= k2
                /\ getOut.ports = listing[k].ports

\* two native slices with different ports: the first has one endpoint that
\* is not ready, the second a ready one; the ports are those of the first
C34_Witness ==
    /\ getOut.kind = "ok"
    /\ NativeWithPorts = {1, 2}
    /\ Len(listing[1].endpoints) = 1 /\ listing[1].endpoints[1].ready = "false"
    /\ Len(listing[2].endpoints) = 1 /\ listing[2].endpoints[1].ready = "true"
    /\ Len(getOut.endpoints) = 1
    /\ getOut.ports = listing[1].ports
    /\ getOut.ports # listing[2].ports

\* -------------------------------------------------- claims about convergence

\* the ports of the first native slice of a service, in the remote cluster c,
\* that has ports
FirstPorts(c, key) ==
    LET withPorts == SelectSeq(remote[c].slices,
                               LAMBDA sl : /\ sl.namespace = key[1]
                                           /\ sl.labels[ServiceNameLabel] = key[2]
                                           /\ ClusterLabel \notin DOMAIN sl.labels
                                           /\ sl.ports # <<>>)
    IN  IF withPorts = <<>> THEN <<>> ELSE withPorts[1].ports
\* the addresses of the ready native endpoints of a service in c
ReadyAddresses(c, key) ==
    { remote[c].slices[e[1]].endpoints[e[2]].addresses[1] : e \in ReadyNative(c, key) }
\* the managed slices of the service key are one per cluster of the set cs,
\* each with the ready endpoints and the ports of its cluster
MirrorsExactly(key, cs) ==
    /\ { localSlices[k].labels[ClusterLabel] : k \in ManagedOf(localSlices, key) } = cs
    /\ Cardinality(ManagedOf(localSlices, key)) = Cardinality(cs)
    /\ \A k \in ManagedOf(localSlices, key) :
          LET c == localSlices[k].labels[ClusterLabel]
          IN  /\ AddressesOf(localSlices[k].endpoints) = ReadyAddresses(c, key)
              /\ Len(localSlices[k].endpoints) = Cardinality(ReadyAddresses(c, key))
              /\ \A i \in DOMAIN localSlices[k].endpoints : localSlices[k].endpoints[i].ready = "true"
              /\ localSlices[k].ports = FirstPorts(c, key)
\* the clusters a discovery made now would record as contributors of key
ContributorsNow(key) ==
    { c \in DOMAIN clusterLinks :
        /\ connects(clusterLinks[c])
        /\ remote[c].up
        /\ key \in Range(remote[c].services)
        /\ ~ShouldExcludeNamespace(key[1], ToExcludedNamespaceSet(clusterLinks[c].spec),
                                   ToIncludedNamespaceSet(clusterLinks[c].spec))
        /\ ~ShouldExcludeService(key[1], key[2], ToExcludedServiceSet(clusterLinks[c].spec),
                                 ToExcludedServiceNameSet(clusterLinks[c].spec)) }
\* the local store mirrors the remote clusters as they are now: every
\* service some cluster contributes has the local parent it is to have, and
\* every such service with a local parent is mirrored exactly
ConvergedNow ==
    \A key \in ServiceKeys :
        ContributorsNow(key) # {} =>
            /\ cfg.SyncServicesToLocalCluster => localServices[key] # 0
            /\ localServices[key] # 0 =>
                  MirrorsExactly(key, { c \in ContributorsNow(key) : ReadyNative(c, key) # {} })

\* C35: when no call fails and nothing changes while a cycle runs, (1) at the
\* end of a cycle every service of the map the cycle reconciled (the
\* discovered services with a local parent) is mirrored by exactly one
\* managed slice per contributor with a ready native endpoint, holding that
\* cluster's ready endpoints and its ports; (2) a step of sync taken when the
\* store mirrors the clusters as they are leaves the slices as they are; (3)
\* the changes having stopped, the store comes to mirror the clusters and
\* stays so.
C35_Convergence ==
    /\ [](CycleCompleted =>
            \A key \in DOMAIN services :
                MirrorsExactly(key, { c \in Range(services[key].Clusters) : ReadyNative(c, key) # {} }))
    /\ [][(ConvergedNow /\ last'.op # "env") => localSlices' = localSlices]_vars
    /\ <>[]ConvergedNow

\* a cycle has ended with web mirrored from east alone, one ready address
\* left of two, after west lost its ready endpoint; the slice of (web, west),
\* made by an earlier cycle, is gone
C35_Witness ==
    /\ CycleCompleted /\ envSteps = 2
    /\ WebKey \in DOMAIN services
    /\ Range(services[WebKey].Clusters) = {East, West}
    /\ ReadyNative(West, WebKey) = {}
    /\ Cardinality(ReadyAddresses(East, WebKey)) = 1
    /\ ManagedOf(localSlices, WebKey) = {ManagedWebKey(East)}
    /\ Len(localSlices[ManagedWebKey(East)].endpoints) = 1
    /\ ConvergedNow

\* ------------------------------------------ claims about the orphan cleanup

\* the managed slices of the reconciled service whose cluster has no group
OrphansBefore ==
    { k \in ManagedOf(last.before, last.svc) :
        last.before[k].labels[ClusterLabel] \notin GroupClusters }

\* C36: in a reconcile whose cleanup listed the slices, a Delete is issued
\* for every orphaned slice of the service, whether or not the Delete of
\* another orphan failed.
C36_CleanupGoesOn ==
    (Reconciled /\ ~last.listFailed) =>
        \A k \in OrphansBefore : \E n \in CallsOf("delete") : last.calls[n].key = k

\* C38: a step of the controller removes a slice from the local store only
\* when it is the reconcile of a service S of a namespace N and the slice is
\* in N, labelled with the service name S and with a cluster label; slices
\* without the cluster label, slices of other services and slices of other
\* namespaces are never removed.
C38_CleanupFootprint ==
    [][last'.op # "env" =>
          \A k \in (DOMAIN localSlices) \ (DOMAIN localSlices') :
              /\ last'.op = "syncService"
              /\ k[1] = last'.svc[1]
              /\ localSlices[k].labels[ServiceNameLabel] = last'.svc[2]
              /\ ClusterLabel \in DOMAIN localSlices[k].labels]_vars

\* the reconcile of default/web has deleted the slice of west; the slice of
\* west for prod/web, the slice of west for default/api and the native slice
\* of default/web are still there
C38_Witness ==
    /\ Reconciled /\ last.svc = WebKey
    /\ \E n \in CallsOf("delete") : last.calls[n].ok /\ last.calls[n].key = ManagedWebKey(West)
    /\ <<Prod, <<"web", "svclink", "west">>>> \in DOMAIN localSlices
    /\ <<Default, <<"api", "svclink", "west">>>> \in DOMAIN localSlices
    /\ LocalNativeKey \in DOMAIN localSlices

\* ------------------------------------------- claims about the status written

\* the descriptors whose status the controller has written
StatusWritten == { c \in DOMAIN clusterLinks : clusterLinks[c].status # NoStatus }
HasErrorCondition(status) == \E i \in DOMAIN status.conditions : status.conditions[i].type = "Error"

ListFailedFor == { c \in Range(last.clusters) : c \in DOMAIN clusterInfos /\ ~remote[c].up }
\* the slice of the reconciled service for the cluster c
SliceOf(c) == <<last.svc[1], last.svc[2] \o <<"svclink">> \o c>>
\* a cluster with a group is spared by the cleanup, and its slice is left as
\* it was when its update failed
GroupsKept ==
    \A c \in GroupClusters :
        SliceOf(c) \in DOMAIN last.before =>
            /\ SliceOf(c) \in DOMAIN localSlices
            /\ \A n \in CallsOf("delete") : last.calls[n].key # SliceOf(c)
            /\ c \in last.failed => localSlices[SliceOf(c)] = last.before[SliceOf(c)]

C37_NameInjective ==
    ( /\ naming.names # <<>>
      /\ <<naming.service1, naming.cluster1>> # <<naming.service2, naming.cluster2>> )
    => naming.names[1] # naming.names[2]

====
